---- MODULE Spec2Model ----
(***************************************************************************)
(* BeesInATrap: the combat engine of internal/game (the version of game.go *)
(* that guards the game state with a sync.RWMutex and reports damage on a  *)
(* buffered channel).  Three kinds of threads run: the caller of the       *)
(* public operations ("main"), the decision goroutines of one BeeTurn, and *)
(* the damage-event monitor started by NewGameWithConfig ("consumer").     *)
(* Every step of a thread is one access to shared state or one             *)
(* synchronisation (lock, unlock, channel send/receive).                   *)
(***************************************************************************)
EXTENDS Integers, Sequences, FiniteSets, TLC

(***************************************************************************)
(* Bounds of the model.                                                    *)
(***************************************************************************)
\* PlayerTurn is not called any more once Turns has reached MaxTurns.
MaxTurns == 2
\* BeeTurn is called at most this many times on a player who is already dead.
MaxDeadBeeTurns == 1
\* Player health of the configurations with a mixed hive.
ShortPlayerHP == 2
\* Player health of the configuration used to fill the event queue.
LongPlayerHP == 11
\* PlayGame reads at most this many lines before standard input ends.
MaxInput == 2
\* During PlayGame the player misses at most this many attacks in a row.
MaxMissStreak == 1
\* BeeHit calls TakeDamage at most this many times on one bee.
MaxBeeHits == 11

(***************************************************************************)
(* Program constants.                                                      *)
(***************************************************************************)
Queen == 0
Worker == 1
Drone == 2
BeeTypes == {Queen, Worker, Drone}

QueenHP == 100
QueenDamage == 10
QueenTakesDamage == 10
WorkerHP == 75
WorkerDamage == 5
WorkerTakesDamage == 25
DroneHP == 60
DroneDamage == 1
DroneTakesDamage == 30

\* make(chan int, 10)
DamageEventCap == 10

\* Probabilities are held in percent: 15 stands for 0.15.
DefaultPlayerMissChance == 15
DefaultBeesMissChance == 20
\* --bees-miss 1.0 and --bees-miss 0.0
AlwaysMiss == 100
NeverMiss == 0

BeeStatsTable ==
    (Queen :> [HP |-> QueenHP, Damage |-> QueenDamage, TakesDamage |-> QueenTakesDamage])
    @@ (Worker :> [HP |-> WorkerHP, Damage |-> WorkerDamage, TakesDamage |-> WorkerTakesDamage])
    @@ (Drone :> [HP |-> DroneHP, Damage |-> DroneDamage, TakesDamage |-> DroneTakesDamage])

\* The values rng.Float64() is drawn from, in percent of [0,1): both sides of
\* each miss chance, and the ends of the range.
Float64Values == {0, 14, 15, 19, 20, 99}

GameConfig(hp, pm, bm, q, w, d) ==
    [PlayerHP |-> hp, PlayerMissChance |-> pm, BeesMissChance |-> bm,
     QueenCount |-> q, WorkerCount |-> w, DroneCount |-> d]

\* The configurations a game is constructed with.
Configs ==
    { GameConfig(ShortPlayerHP, DefaultPlayerMissChance, DefaultBeesMissChance, 1, 0, 1),
      GameConfig(ShortPlayerHP, DefaultPlayerMissChance, AlwaysMiss, 2, 0, 0),
      GameConfig(LongPlayerHP, DefaultPlayerMissChance, NeverMiss, 0, 0, 1),
      GameConfig(ShortPlayerHP, DefaultPlayerMissChance, DefaultBeesMissChance, 0, 0, 0) }

Commands == {"hit", "invalid"}

VARIABLES
    \* Game
    Config, Player, bees, Hive, AliveBees, Turns, damageEvent, mu,
    \* the caller of the public operations
    pc, op, command, currentTurn, aliveBees, targetBee, report, over, retBees,
    hits, misses, chosen, damage, enq,
    \* the decision goroutines of the BeeTurn in progress
    wk, wg, decisionChan, closed,
    \* the damage-event monitor
    cpc, cDamage, cTurns, cPlayerHP, cAliveBees,
    \* history: the state when the operation in progress was called, and the
    \* number of BeeTurn calls made on a player who was already dead
    pre, deadBeeTurns,
    \* PlayGame and EndGame: the AutoMode field of the game, the position of
    \* PlayGame ("api" when the operations are called directly), the lines
    \* still to be read from standard input, the command last read, the
    \* playerAlive local of EndGame, the result EndGame announced, and the
    \* commands read so far (history)
    AutoMode, pg, stdin, input, playerAlive, verdict, inputLog,
    \* history: the misses PlayerAttack rolled in a row during PlayGame, and the
    \* TakeDamage calls made on each bee by BeeHit
    missStreak, hitCount,
    \* history: for each event waiting in damageEvent the player's health right
    \* after the damage that produced it, the same for the event the monitor
    \* is handling, and the triples of turn number, player health and number
    \* of bees alive that the game has been in, as far as the monitor can still
    \* report them
    eventHP, cEventHP, seen,
    \* a second caller: the position of a goroutine that calls KillAllBees
    \* while PlayGame runs, and the health PlayerAttack's TakeDamage has read
    \* and not yet written back
    kpc, hpRead,
    \* history: the attacks PlayGame has made on a hive that was not empty
    attempts,
    \* history: the damage of every attack of the bees that has landed, and
    \* every value the monitor has received, in order
    landedLog, consumedLog

gameVars == <<Config, Player, bees, Hive, AliveBees, Turns, damageEvent, mu>>
mainVars == <<pc, op, command, currentTurn, aliveBees, targetBee, report, over,
              retBees, hits, misses, chosen, damage, enq>>
workerVars == <<wk, wg, decisionChan, closed>>
consumerVars == <<cpc, cDamage, cTurns, cPlayerHP, cAliveBees>>
historyVars == <<pre, deadBeeTurns>>
playVars == <<AutoMode, pg, stdin, input, playerAlive, verdict, inputLog>>
ownVars == <<playVars, missStreak, hitCount>>
raceVars == <<kpc, hpRead>>
logVars == <<landedLog, consumedLog>>
sessionVars == <<ownVars, eventHP, cEventHP, seen, raceVars, attempts, logVars>>
vars == <<gameVars, mainVars, workerVars, consumerVars, historyVars, sessionVars>>

(***************************************************************************)
(* Bee and Player                                                          *)
(***************************************************************************)
NewBee(beeType) ==
    [Type |-> beeType, HP |-> BeeStatsTable[beeType].HP,
     MaxHP |-> BeeStatsTable[beeType].HP, Damage |-> BeeStatsTable[beeType].Damage]

BeeIsAlive(b) == b.HP > 0

\* Mutant of BeeTakeDamage: the health is not clamped at 0.
BeeTakeDamage_NoClamp(b) ==
    [b EXCEPT !.HP = b.HP - BeeStatsTable[b.Type].TakesDamage]

BeeTakeDamage(b) ==
    LET hp == b.HP - BeeStatsTable[b.Type].TakesDamage
    IN  [b EXCEPT !.HP = IF hp < 0 THEN 0 ELSE hp]

\* Mutant of PlayerTakeDamage: the health is not clamped at 0.
PlayerTakeDamage_NoClamp(p, dmg) == [p EXCEPT !.HP = p.HP - dmg]

\* Mutant of PlayerTakeDamage: a health that would go below 0 is set back to
\* MaxHP.
PlayerTakeDamage_Restores(p, dmg) ==
    [p EXCEPT !.HP = IF p.HP - dmg < 0 THEN p.MaxHP ELSE p.HP - dmg]

PlayerTakeDamage(p, dmg) ==
    LET hp == p.HP - dmg
    IN  [p EXCEPT !.HP = IF hp < 0 THEN 0 ELSE hp]

\* Mutant of PlayerIsAlive: the player counts as alive whatever the health.
PlayerIsAlive_Always(p) == TRUE

PlayerIsAlive(p) == p.HP > 0

(***************************************************************************)
(* Construction: NewGameWithConfig and initializeHive.  Bees are numbered  *)
(* in the order initializeHive creates them: Queens, Workers, Drones.      *)
(***************************************************************************)
TotalBees(cfg) == cfg.QueenCount + cfg.WorkerCount + cfg.DroneCount

TypeOfIndex(cfg, i) ==
    IF i <= cfg.QueenCount THEN Queen
    ELSE IF i <= cfg.QueenCount + cfg.WorkerCount THEN Worker
    ELSE Drone

Range(lo, n) == [i \in 1..n |-> lo + i]

\* Mutant of initializeHive: the Drones are left out.
initializeHive_NoDrones(cfg) ==
    [bees |-> [i \in 1..(cfg.QueenCount + cfg.WorkerCount) |-> NewBee(TypeOfIndex(cfg, i))],
     Hive |-> (Queen :> Range(0, cfg.QueenCount))
              @@ (Worker :> Range(cfg.QueenCount, cfg.WorkerCount))
              @@ (Drone :> <<>>),
     AliveBees |-> Range(0, cfg.QueenCount + cfg.WorkerCount)]

initializeHive(cfg) ==
    [bees |-> [i \in 1..TotalBees(cfg) |-> NewBee(TypeOfIndex(cfg, i))],
     Hive |-> (Queen :> Range(0, cfg.QueenCount))
              @@ (Worker :> Range(cfg.QueenCount, cfg.WorkerCount))
              @@ (Drone :> Range(cfg.QueenCount + cfg.WorkerCount, cfg.DroneCount)),
     AliveBees |-> Range(0, TotalBees(cfg))]

NoPre == [HP |-> 0, Turns |-> 0, bees |-> <<>>]
NoDecision == [Bee |-> 0, WillHit |-> FALSE]

\* The game NewGameWithConfig returns for Config, its monitor goroutine
\* started, and no operation called yet.
\* The turn number, the player's health and the number of bees alive.
Observed == <<Turns, Player.HP, Cardinality({i \in DOMAIN bees : BeeIsAlive(bees[i])})>>
\* The turn number and health the monitor has read for the event it handles.
MonitorPair ==
    IF cpc \in {"rlocked", "get", "locked"} THEN {<<cTurns, cPlayerHP>>} ELSE {}
\* The triples of S the monitor can still report: those with the turn number
\* and health the game has now (t, h) or the monitor holds.
Reportable(S, t, h, held) ==
    {x \in S : <<x[1], x[2]>> = <<t, h>> \/ <<x[1], x[2]>> \in held}
\* A step of PlayGame that changes the game adds the state it leaves to the
\* history; the history is kept for runs of PlayGame only.
Observe ==
    seen' = IF pg = "api" THEN seen
            ELSE Reportable(seen \cup {Observed'}, Turns', Player'.HP, MonitorPair)
\* The monitor is done with an event: what it held is no longer reportable.
Forget ==
    seen' = IF pg = "api" THEN seen ELSE Reportable(seen, Turns, Player.HP, {})

\* What NewGameWithConfig sets besides the player, the bees and the list of
\* bees alive.
NewGameRest ==
    /\ Hive = initializeHive(Config).Hive
    /\ Turns = 0
    /\ damageEvent = <<>>
    /\ mu = [w |-> "none", r |-> {}]
    /\ pc = "idle" /\ op = "none" /\ command = "none" /\ currentTurn = 0
    /\ aliveBees = <<>> /\ targetBee = 0 /\ report = "none" /\ over = FALSE
    /\ retBees = <<>> /\ hits = <<>> /\ misses = <<>> /\ chosen = NoDecision
    /\ damage = 0 /\ enq = "none"
    /\ wk = [i \in 1..TotalBees(Config) |-> "none"] /\ wg = 0
    /\ decisionChan = <<>> /\ closed = FALSE
    /\ cpc = "wait" /\ cDamage = 0 /\ cTurns = 0 /\ cPlayerHP = 0 /\ cAliveBees = <<>>
    /\ pre = NoPre /\ deadBeeTurns = 0
    /\ AutoMode = FALSE
    /\ input = "none" /\ playerAlive = FALSE /\ verdict = "none" /\ inputLog = <<>>
    /\ missStreak = 0
    /\ hitCount = [i \in 1..TotalBees(Config) |-> 0]
    /\ eventHP = <<>> /\ cEventHP = 0
    /\ kpc = "idle" /\ hpRead = 0
    /\ attempts = 0
    /\ landedLog = <<>> /\ consumedLog = <<>>

NewGameWithConfig ==
    /\ Player = [HP |-> Config.PlayerHP, MaxHP |-> Config.PlayerHP]
    /\ bees = initializeHive(Config).bees
    /\ AliveBees = initializeHive(Config).AliveBees
    /\ NewGameRest
    /\ seen = {Observed}

\* A game is constructed and its operations are called directly.
Init ==
    /\ Config \in Configs
    /\ NewGameWithConfig
    /\ pg = "api" /\ stdin = <<>>

(***************************************************************************)
(* sync.RWMutex                                                            *)
(***************************************************************************)
CanLock == mu.w = "none" /\ mu.r = {}
CanRLock == mu.w = "none"
Lock(t) == [mu EXCEPT !.w = t]
Unlock == [mu EXCEPT !.w = "none"]
RLock(t) == [mu EXCEPT !.r = @ \cup {t}]
\* Mutant of RUnlock: the read lock is never given back.
RUnlock_Forgotten(t) == mu
RUnlock(t) == [mu EXCEPT !.r = @ \ {t}]

(***************************************************************************)
(* The bodies of the operations of Game                                    *)
(***************************************************************************)
\* Mutant of getAliveBeesUnsafe: the cached list is returned as it is.
getAliveBeesUnsafe_Cached == AliveBees

\* The list getAliveBeesUnsafe computes, caches and returns.
getAliveBeesUnsafe == SelectSeq(AliveBees, LAMBDA i : BeeIsAlive(bees[i]))

GetBeesByType(beeType) == SelectSeq(Hive[beeType], LAMBDA i : BeeIsAlive(bees[i]))

\* Mutant of KillAllBees: the alive list is cleared but no health is set to 0.
KillAllBees_ListOnly(bs) == bs

\* Mutant of KillAllBees: only the Queens' list is walked.
KillAllBees_QueensOnly(bs) ==
    [i \in DOMAIN bs |->
        IF \E k \in 1..Len(Hive[Queen]) : Hive[Queen][k] = i
        THEN [bs[i] EXCEPT !.HP = 0] ELSE bs[i]]

\* The bees after KillAllBees: every bee of every list of the hive at 0.
KillAllBees(bs) ==
    [i \in DOMAIN bs |->
        IF \E t \in BeeTypes : \E k \in 1..Len(Hive[t]) : Hive[t][k] = i
        THEN [bs[i] EXCEPT !.HP = 0] ELSE bs[i]]

\* Mutant of makeBeeDecision: a draw equal to the miss chance is a miss.
makeBeeDecision_Strict(i, r) == [Bee |-> i, WillHit |-> r > Config.BeesMissChance]
\* localRng.Float64() >= g.Config.BeesMissChance
makeBeeDecision(i, r) == [Bee |-> i, WillHit |-> r >= Config.BeesMissChance]

\* Mutant of SelectSend: a plain send, g.damageEvent <- damage, which waits
\* for room.
SelectSend_Blocking(q, d) == IF Len(q) < DamageEventCap THEN {Append(q, d)} ELSE {}

\* Mutant of SelectSend: the player's health lost so far is offered, not the
\* damage of the attack.
SelectSend_TotalLoss(q, d) ==
    IF Len(q) < DamageEventCap
    THEN {Append(q, Player.MaxHP - Player.HP)} ELSE {q}

\* Mutant of SelectSend: the event is queued whatever the length.
SelectSend_Unbounded(q, d) == {Append(q, d)}

\* select { case g.damageEvent <- damage: default: }: the queues the statement
\* can leave behind (none would mean that it blocks).
SelectSend(q, d) == IF Len(q) < DamageEventCap THEN {Append(q, d)} ELSE {q}

\* Mutant of NoBeesLeft: BeeTurn goes on with an empty snapshot.
NoBeesLeft_Never(bs) == FALSE

\* BeeTurn: if len(aliveBees) == 0 { return }
NoBeesLeft(bs) == Len(bs) = 0

\* Mutant of RangeEnded: the loop is left when the channel is found empty,
\* closed or not.
RangeEnded_OnEmpty == decisionChan = <<>>

\* BeeTurn: "for decision := range decisionChan" ends when the channel is
\* closed and drained.
RangeEnded == decisionChan = <<>> /\ closed

\* Mutant of Landed: if len(hits) > 1
Landed_OffByOne(hs) == Len(hs) > 1

\* if len(hits) > 0
Landed(hs) == Len(hs) > 0

\* Mutant of NextTurns: the counter moves only when a bee is left to attack.
NextTurns_IfBeeAlive(t) == IF Len(getAliveBeesUnsafe) = 0 THEN t ELSE t + 1

\* Mutant of NextTurns: the counter moves only for the command "hit".
NextTurns_HitOnly(t) == IF command' = "hit" THEN t + 1 ELSE t

\* g.Turns++
NextTurns(t) == t + 1

\* Mutant of AttackDamage: the damage of every hit is added up.
AttackDamage_Sum(hs, i) ==
    LET sum[k \in 0..Len(hs)] ==
            IF k = 0 THEN 0 ELSE sum[k - 1] + bees[hs[k].Bee].Damage
    IN  sum[Len(hs)]

\* The damage BeeTurn applies for the chosen attack.
AttackDamage(hs, i) == bees[hs[i].Bee].Damage

Snapshot == [HP |-> Player.HP, Turns |-> Turns, bees |-> bees]

\* The operation the main thread may call next: any of them when the
\* operations are called directly, and inside PlayGame the one its loop has
\* reached.
MayCall(o) ==
    \/ pg = "api"
    \/ pg \in {"top", "check"} /\ o = "IsGameOver"
    \/ pg = "turn" /\ o = "PlayerTurn"
    \/ pg = "bees" /\ o = "BeeTurn"

\* The commands PlayerTurn is called with: PlayGame passes "hit" only.
Arguments == IF pg = "api" THEN Commands ELSE {"hit"}

\* The values g.rng.Float64() can give PlayerAttack: during PlayGame at most
\* MaxMissStreak attacks in a row roll below the miss chance.
Rolls ==
    IF pg # "api" /\ missStreak >= MaxMissStreak
    THEN {r \in Float64Values : r >= Config.PlayerMissChance}
    ELSE Float64Values

(***************************************************************************)
(* PlayerTurn and PlayerAttack (main)                                      *)
(***************************************************************************)
\* What Return leaves behind: the locals of the finished operation are gone.
ResetMain ==
    /\ pc' = "idle" /\ op' = "none" /\ command' = "none" /\ currentTurn' = 0
    /\ aliveBees' = <<>> /\ targetBee' = 0 /\ report' = "none" /\ over' = FALSE
    /\ retBees' = <<>> /\ hits' = <<>> /\ misses' = <<>> /\ chosen' = NoDecision
    /\ damage' = 0 /\ enq' = "none"
    /\ wk' = [i \in DOMAIN wk |-> "none"] /\ wg' = 0
    /\ decisionChan' = <<>> /\ closed' = FALSE
    /\ pre' = NoPre

\* PlayerTurn: g.mu.Lock(); g.Turns++; currentTurn := g.Turns
CallPlayerTurn ==
    /\ pc = "idle" /\ MayCall("PlayerTurn") /\ CanLock
    /\ pg = "api" => Turns < MaxTurns
    /\ command' \in Arguments
    /\ op' = "PlayerTurn" /\ pre' = Snapshot
    /\ mu' = Lock("main")
    /\ Turns' = NextTurns(Turns)
    /\ currentTurn' = NextTurns(Turns)
    /\ pc' = "pt_locked"
    /\ UNCHANGED <<Config, Player, bees, Hive, AliveBees, damageEvent>>
    /\ UNCHANGED <<aliveBees, targetBee, report, over, retBees, hits, misses,
                   chosen, damage, enq>>
    /\ UNCHANGED <<workerVars, consumerVars, deadBeeTurns>>
    /\ Observe
    /\ UNCHANGED <<ownVars, eventHP, cEventHP, raceVars, attempts, logVars>>

\* PlayerTurn: g.mu.Unlock(); if command == "hit" { g.PlayerAttack() }
PT_Unlock ==
    /\ pc = "pt_locked"
    /\ mu' = Unlock
    /\ pc' = IF command = "hit" THEN "pa_call" ELSE "ret"
    /\ UNCHANGED <<Config, Player, bees, Hive, AliveBees, Turns, damageEvent>>
    /\ UNCHANGED <<op, command, currentTurn, aliveBees, targetBee, report, over,
                   retBees, hits, misses, chosen, damage, enq>>
    /\ UNCHANGED <<workerVars, consumerVars, historyVars>>
    /\ UNCHANGED sessionVars

\* PlayerAttack called on its own.
CallPlayerAttack ==
    /\ pc = "idle" /\ MayCall("PlayerAttack")
    /\ op' = "PlayerAttack" /\ pre' = Snapshot
    /\ pc' = "pa_call"
    /\ UNCHANGED <<gameVars, workerVars, consumerVars, deadBeeTurns>>
    /\ UNCHANGED <<command, currentTurn, aliveBees, targetBee, report, over,
                   retBees, hits, misses, chosen, damage, enq>>
    /\ UNCHANGED sessionVars

\* PlayerAttack: aliveBees := g.GetAliveBees(), up to the return inside the lock.
PA_GetAliveBees ==
    /\ pc = "pa_call" /\ CanLock
    /\ mu' = Lock("main")
    /\ AliveBees' = getAliveBeesUnsafe
    /\ aliveBees' = getAliveBeesUnsafe
    /\ pc' = "pa_got"
    /\ UNCHANGED <<Config, Player, bees, Hive, Turns, damageEvent>>
    /\ UNCHANGED <<op, command, currentTurn, targetBee, report, over, retBees,
                   hits, misses, chosen, damage, enq>>
    /\ UNCHANGED <<workerVars, consumerVars, historyVars>>
    /\ UNCHANGED sessionVars

\* Mutant of TriggersCascade: the death of any bee empties the hive.
TriggersCascade_AnyBee(b) == ~BeeIsAlive(b)
\* PlayerAttack: if !targetBee.IsAlive() { ... if targetBee.Type == Queen {
TriggersCascade(b) == ~BeeIsAlive(b) /\ b.Type = Queen

\* Mutant of PA_Roll: a miss still picks a target and goes on to hit it.
PA_Roll_MissStillHits ==
    /\ pc = "pa_got"
    /\ mu' = Unlock
    /\ IF Len(aliveBees) = 0
       THEN /\ report' = "nobees" /\ targetBee' = targetBee /\ pc' = "ret"
       ELSE \E r \in Rolls : \E k \in 1..Len(aliveBees) :
              /\ report' = IF r < Config.PlayerMissChance THEN "miss" ELSE "hit"
              /\ targetBee' = aliveBees[k]
              /\ pc' = "pa_damage"
    /\ missStreak' = IF pg = "api" THEN missStreak
                     ELSE IF report' = "miss" THEN missStreak + 1 ELSE 0
    /\ UNCHANGED <<Config, Player, bees, Hive, AliveBees, Turns, damageEvent>>
    /\ UNCHANGED <<op, command, currentTurn, aliveBees, over, retBees, hits,
                   misses, chosen, damage, enq>>
    /\ UNCHANGED <<workerVars, consumerVars, historyVars>>
    /\ attempts' = IF pg = "api" \/ Len(aliveBees) = 0 THEN attempts
                   ELSE attempts + 1
    /\ UNCHANGED <<playVars, hitCount, eventHP, cEventHP, seen, raceVars, logVars>>

\* PlayerAttack: the deferred Unlock of GetAliveBees, the empty-hive return,
\* the miss roll and the choice of the target.
PA_Roll ==
    /\ pc = "pa_got"
    /\ mu' = Unlock
    /\ IF Len(aliveBees) = 0
       THEN /\ report' = "nobees" /\ targetBee' = targetBee /\ pc' = "ret"
       ELSE \E r \in Rolls : \E k \in 1..Len(aliveBees) :
              IF r < Config.PlayerMissChance
              THEN /\ report' = "miss" /\ targetBee' = targetBee /\ pc' = "ret"
              ELSE /\ report' = "hit" /\ targetBee' = aliveBees[k]
                   /\ pc' = "pa_damage"
    /\ missStreak' = IF pg = "api" THEN missStreak
                     ELSE IF report' = "miss" THEN missStreak + 1 ELSE 0
    /\ UNCHANGED <<Config, Player, bees, Hive, AliveBees, Turns, damageEvent>>
    /\ UNCHANGED <<op, command, currentTurn, aliveBees, over, retBees, hits,
                   misses, chosen, damage, enq>>
    /\ UNCHANGED <<workerVars, consumerVars, historyVars>>
    /\ attempts' = IF pg = "api" \/ Len(aliveBees) = 0 THEN attempts
                   ELSE attempts + 1
    /\ UNCHANGED <<playVars, hitCount, eventHP, cEventHP, seen, raceVars, logVars>>

\* PlayerAttack: targetBee.TakeDamage(), with no lock held.
PA_TakeDamage ==
    /\ pc = "pa_damage"
    /\ bees' = [bees EXCEPT ![targetBee] = BeeTakeDamage(@)]
    /\ pc' = "pa_check"
    /\ UNCHANGED <<Config, Player, Hive, AliveBees, Turns, damageEvent, mu>>
    /\ UNCHANGED <<op, command, currentTurn, aliveBees, targetBee, report, over,
                   retBees, hits, misses, chosen, damage, enq>>
    /\ UNCHANGED <<workerVars, consumerVars, historyVars>>
    /\ Observe
    /\ UNCHANGED <<ownVars, eventHP, cEventHP, raceVars, attempts, logVars>>

\* PlayerAttack: if the target died and is a Queen, g.KillAllBees() up to its
\* deferred Unlock; otherwise PlayerAttack returns.
PA_Check ==
    /\ pc = "pa_check"
    /\ IF TriggersCascade(bees[targetBee])
       THEN /\ CanLock
            /\ mu' = Lock("main")
            /\ bees' = KillAllBees(bees)
            /\ AliveBees' = <<>>
            /\ pc' = "ka_locked"
       ELSE /\ pc' = "ret"
            /\ UNCHANGED <<mu, bees, AliveBees>>
    /\ UNCHANGED <<Config, Player, Hive, Turns, damageEvent>>
    /\ UNCHANGED <<op, command, currentTurn, aliveBees, targetBee, report, over,
                   retBees, hits, misses, chosen, damage, enq>>
    /\ UNCHANGED <<workerVars, consumerVars, historyVars>>
    /\ Observe
    /\ UNCHANGED <<ownVars, eventHP, cEventHP, raceVars, attempts, logVars>>

\* KillAllBees called on its own, up to its deferred Unlock.
CallKillAllBees ==
    /\ pc = "idle" /\ MayCall("KillAllBees") /\ CanLock
    /\ op' = "KillAllBees" /\ pre' = Snapshot
    /\ mu' = Lock("main")
    /\ bees' = KillAllBees(bees)
    /\ AliveBees' = <<>>
    /\ pc' = "ka_locked"
    /\ UNCHANGED <<Config, Player, Hive, Turns, damageEvent>>
    /\ UNCHANGED <<command, currentTurn, aliveBees, targetBee, report, over,
                   retBees, hits, misses, chosen, damage, enq>>
    /\ UNCHANGED <<workerVars, consumerVars, deadBeeTurns>>
    /\ Observe
    /\ UNCHANGED <<ownVars, eventHP, cEventHP, raceVars, attempts, logVars>>

\* KillAllBees: the deferred g.mu.Unlock().
KA_Unlock ==
    /\ pc = "ka_locked"
    /\ mu' = Unlock
    /\ pc' = "ret"
    /\ UNCHANGED <<Config, Player, bees, Hive, AliveBees, Turns, damageEvent>>
    /\ UNCHANGED <<op, command, currentTurn, aliveBees, targetBee, report, over,
                   retBees, hits, misses, chosen, damage, enq>>
    /\ UNCHANGED <<workerVars, consumerVars, historyVars>>
    /\ UNCHANGED sessionVars

\* The operation in progress returns to its caller.
Return ==
    /\ pc = "ret" /\ pg = "api"
    /\ ResetMain
    /\ UNCHANGED <<gameVars, consumerVars, deadBeeTurns>>
    /\ UNCHANGED sessionVars

(***************************************************************************)
(* BeeTurn (main) and its decision goroutines                              *)
(***************************************************************************)
\* Mutant of BT_ReadTurns: BeeTurn counts as a turn of its own.
BT_ReadTurns_Counting ==
    /\ currentTurn' = Turns + 1
    /\ Turns' = Turns + 1

\* BeeTurn: currentTurn := g.Turns
BT_ReadTurns ==
    /\ currentTurn' = Turns
    /\ Turns' = Turns

\* BeeTurn: g.mu.RLock(); currentTurn := g.Turns
CallBeeTurn ==
    /\ pc = "idle" /\ MayCall("BeeTurn") /\ CanRLock
    /\ PlayerIsAlive(Player) \/ deadBeeTurns < MaxDeadBeeTurns
    /\ deadBeeTurns' = IF PlayerIsAlive(Player) THEN deadBeeTurns ELSE deadBeeTurns + 1
    /\ op' = "BeeTurn" /\ pre' = Snapshot
    /\ mu' = RLock("main")
    /\ BT_ReadTurns
    /\ pc' = "bt_rlocked"
    /\ UNCHANGED <<Config, Player, bees, Hive, AliveBees, damageEvent>>
    /\ UNCHANGED <<command, aliveBees, targetBee, report, over, retBees, hits,
                   misses, chosen, damage, enq>>
    /\ UNCHANGED <<workerVars, consumerVars>>
    /\ UNCHANGED sessionVars

\* BeeTurn: g.mu.RUnlock()
BT_RUnlock ==
    /\ pc = "bt_rlocked"
    /\ mu' = RUnlock("main")
    /\ pc' = "bt_call"
    /\ UNCHANGED <<Config, Player, bees, Hive, AliveBees, Turns, damageEvent>>
    /\ UNCHANGED <<op, command, currentTurn, aliveBees, targetBee, report, over,
                   retBees, hits, misses, chosen, damage, enq>>
    /\ UNCHANGED <<workerVars, consumerVars, historyVars>>
    /\ UNCHANGED sessionVars

\* BeeTurn: aliveBees := g.GetAliveBees(), up to the return inside the lock.
BT_GetAliveBees ==
    /\ pc = "bt_call" /\ CanLock
    /\ mu' = Lock("main")
    /\ AliveBees' = getAliveBeesUnsafe
    /\ aliveBees' = getAliveBeesUnsafe
    /\ pc' = "bt_got"
    /\ UNCHANGED <<Config, Player, bees, Hive, Turns, damageEvent>>
    /\ UNCHANGED <<op, command, currentTurn, targetBee, report, over, retBees,
                   hits, misses, chosen, damage, enq>>
    /\ UNCHANGED <<workerVars, consumerVars, historyVars>>
    /\ UNCHANGED sessionVars

\* BeeTurn: the deferred Unlock of GetAliveBees, the empty-hive return, and one
\* goroutine started per bee of the snapshot (wg.Add(1) each) on a channel of
\* capacity len(aliveBees).
BT_Dispatch ==
    /\ pc = "bt_got"
    /\ mu' = Unlock
    /\ IF NoBeesLeft(aliveBees)
       THEN /\ pc' = "ret"
            /\ UNCHANGED workerVars
       ELSE /\ pc' = "bt_collect"
            /\ wk' = [i \in DOMAIN wk |->
                        IF \E k \in 1..Len(aliveBees) : aliveBees[k] = i
                        THEN "run" ELSE "none"]
            /\ wg' = Len(aliveBees)
            /\ decisionChan' = <<>>
            /\ closed' = FALSE
    /\ UNCHANGED <<Config, Player, bees, Hive, AliveBees, Turns, damageEvent>>
    /\ UNCHANGED <<op, command, currentTurn, aliveBees, targetBee, report, over,
                   retBees, hits, misses, chosen, damage, enq>>
    /\ UNCHANGED <<consumerVars, historyVars>>
    /\ UNCHANGED sessionVars

\* A decision goroutine, whole: decision := g.makeBeeDecision(b);
\* decisionChan <- decision; and the deferred wg.Done().  The send waits while
\* the channel holds len(aliveBees) decisions.
WorkerDecide ==
    \E i \in DOMAIN wk :
        /\ wk[i] = "run"
        /\ Len(decisionChan) < Len(aliveBees)
        /\ \E r \in Float64Values :
              /\ decisionChan' = Append(decisionChan, makeBeeDecision(i, r))
              /\ wk' = [wk EXCEPT ![i] =
                          IF makeBeeDecision(i, r).WillHit THEN "hit" ELSE "miss"]
        /\ wg' = wg - 1
        /\ UNCHANGED closed
        /\ UNCHANGED <<gameVars, mainVars, consumerVars, historyVars>>
        /\ UNCHANGED sessionVars

\* Mutant of CloseDecisions: the channel is closed without wg.Wait().
CloseDecisions_NoWait ==
    /\ pc = "bt_collect" /\ ~closed
    /\ closed' = TRUE
    /\ UNCHANGED <<wk, wg, decisionChan>>
    /\ UNCHANGED <<gameVars, mainVars, consumerVars, historyVars>>
    /\ UNCHANGED sessionVars

\* The closing goroutine: wg.Wait(); close(decisionChan)
CloseDecisions ==
    /\ pc = "bt_collect" /\ ~closed /\ wg = 0
    /\ closed' = TRUE
    /\ UNCHANGED <<wk, wg, decisionChan>>
    /\ UNCHANGED <<gameVars, mainVars, consumerVars, historyVars>>
    /\ UNCHANGED sessionVars

\* BeeTurn: one iteration of "for decision := range decisionChan"
BT_Receive ==
    /\ pc = "bt_collect" /\ decisionChan # <<>>
    /\ decisionChan' = Tail(decisionChan)
    /\ IF Head(decisionChan).WillHit
       THEN /\ hits' = Append(hits, Head(decisionChan)) /\ misses' = misses
       ELSE /\ misses' = Append(misses, Head(decisionChan)) /\ hits' = hits
    /\ UNCHANGED <<wk, wg, closed>>
    /\ UNCHANGED <<pc, op, command, currentTurn, aliveBees, targetBee, report,
                   over, retBees, chosen, damage, enq>>
    /\ UNCHANGED <<gameVars, consumerVars, historyVars>>
    /\ UNCHANGED sessionVars

\* BeeTurn: the range loop ends on the closed, drained channel; then either one
\* of the hits is chosen and applied (g.mu.Lock(); g.Player.TakeDamage(damage)),
\* or one of the misses is chosen and reported.
BT_Resolve ==
    /\ pc = "bt_collect" /\ RangeEnded
    /\ IF Landed(hits)
       THEN /\ CanLock
            /\ \E k \in 1..Len(hits) :
                 /\ chosen' = hits[k]
                 /\ damage' = AttackDamage(hits, k)
                 /\ Player' = PlayerTakeDamage(Player, AttackDamage(hits, k))
            /\ mu' = Lock("main")
            /\ report' = "sting"
            /\ pc' = "bt_locked"
       ELSE IF Len(misses) > 0
       THEN /\ \E k \in 1..Len(misses) : chosen' = misses[k]
            /\ report' = "buzz"
            /\ pc' = "ret"
            /\ UNCHANGED <<damage, Player, mu>>
       ELSE /\ pc' = "ret"
            /\ UNCHANGED <<chosen, report, damage, Player, mu>>
    /\ UNCHANGED <<Config, bees, Hive, AliveBees, Turns, damageEvent>>
    /\ UNCHANGED <<op, command, currentTurn, aliveBees, targetBee, over, retBees,
                   hits, misses, enq>>
    /\ UNCHANGED <<workerVars, consumerVars, historyVars>>
    /\ Observe
    /\ landedLog' = IF Landed(hits) THEN Append(landedLog, damage') ELSE landedLog
    /\ UNCHANGED <<ownVars, eventHP, cEventHP, raceVars, attempts, consumedLog>>

\* BeeTurn: g.mu.Unlock() after the damage
BT_Unlock ==
    /\ pc = "bt_locked"
    /\ mu' = Unlock
    /\ pc' = "bt_send"
    /\ UNCHANGED <<Config, Player, bees, Hive, AliveBees, Turns, damageEvent>>
    /\ UNCHANGED <<op, command, currentTurn, aliveBees, targetBee, report, over,
                   retBees, hits, misses, chosen, damage, enq>>
    /\ UNCHANGED <<workerVars, consumerVars, historyVars>>
    /\ UNCHANGED sessionVars

\* BeeTurn: select { case g.damageEvent <- damage: default: }
BT_Send ==
    /\ pc = "bt_send"
    /\ damageEvent' \in SelectSend(damageEvent, damage)
    /\ enq' = IF Len(damageEvent) < DamageEventCap THEN "queued" ELSE "dropped"
    /\ pc' = "ret"
    /\ UNCHANGED <<Config, Player, bees, Hive, AliveBees, Turns, mu>>
    /\ UNCHANGED <<op, command, currentTurn, aliveBees, targetBee, report, over,
                   retBees, hits, misses, chosen, damage>>
    /\ UNCHANGED <<workerVars, consumerVars, historyVars>>
    /\ eventHP' = IF damageEvent' = damageEvent THEN eventHP
                  ELSE Append(eventHP, Player.HP)
    /\ UNCHANGED <<ownVars, cEventHP, seen, raceVars, attempts, logVars>>

(***************************************************************************)
(* The read operations (main)                                              *)
(***************************************************************************)
\* IsGameOver: under g.mu.RLock(), the player check and getAliveBeesUnsafe()
CallIsGameOver ==
    /\ pc = "idle" /\ MayCall("IsGameOver") /\ CanRLock
    /\ op' = "IsGameOver" /\ pre' = Snapshot
    /\ mu' = RLock("main")
    /\ IF ~PlayerIsAlive(Player)
       THEN /\ over' = TRUE
            /\ AliveBees' = AliveBees
       ELSE /\ AliveBees' = getAliveBeesUnsafe
            /\ over' = (Len(getAliveBeesUnsafe) = 0)
    /\ pc' = "go_rlocked"
    /\ UNCHANGED <<Config, Player, bees, Hive, Turns, damageEvent>>
    /\ UNCHANGED <<command, currentTurn, aliveBees, targetBee, report, retBees,
                   hits, misses, chosen, damage, enq>>
    /\ UNCHANGED <<workerVars, consumerVars, deadBeeTurns>>
    /\ UNCHANGED sessionVars

\* IsGameOver: the deferred g.mu.RUnlock()
GO_RUnlock ==
    /\ pc = "go_rlocked"
    /\ mu' = RUnlock("main")
    /\ pc' = "ret"
    /\ UNCHANGED <<Config, Player, bees, Hive, AliveBees, Turns, damageEvent>>
    /\ UNCHANGED <<op, command, currentTurn, aliveBees, targetBee, report, over,
                   retBees, hits, misses, chosen, damage, enq>>
    /\ UNCHANGED <<workerVars, consumerVars, historyVars>>
    /\ UNCHANGED sessionVars

\* GetAliveBees called on its own, up to the return inside the lock.
CallGetAliveBees ==
    /\ pc = "idle" /\ MayCall("GetAliveBees") /\ CanLock
    /\ op' = "GetAliveBees" /\ pre' = Snapshot
    /\ mu' = Lock("main")
    /\ AliveBees' = getAliveBeesUnsafe
    /\ retBees' = getAliveBeesUnsafe
    /\ pc' = "ga_locked"
    /\ UNCHANGED <<Config, Player, bees, Hive, Turns, damageEvent>>
    /\ UNCHANGED <<command, currentTurn, aliveBees, targetBee, report, over,
                   hits, misses, chosen, damage, enq>>
    /\ UNCHANGED <<workerVars, consumerVars, deadBeeTurns>>
    /\ UNCHANGED sessionVars

\* GetAliveBees: the deferred g.mu.Unlock()
GA_Unlock ==
    /\ pc = "ga_locked"
    /\ mu' = Unlock
    /\ pc' = "ret"
    /\ UNCHANGED <<Config, Player, bees, Hive, AliveBees, Turns, damageEvent>>
    /\ UNCHANGED <<op, command, currentTurn, aliveBees, targetBee, report, over,
                   retBees, hits, misses, chosen, damage, enq>>
    /\ UNCHANGED <<workerVars, consumerVars, historyVars>>
    /\ UNCHANGED sessionVars

\* GetBeesByType called on its own, up to the return inside the read lock.
CallGetBeesByType ==
    /\ pc = "idle" /\ MayCall("GetBeesByType") /\ CanRLock
    /\ op' = "GetBeesByType" /\ pre' = Snapshot
    /\ mu' = RLock("main")
    /\ \E t \in BeeTypes : retBees' = GetBeesByType(t)
    /\ pc' = "gb_rlocked"
    /\ UNCHANGED <<Config, Player, bees, Hive, AliveBees, Turns, damageEvent>>
    /\ UNCHANGED <<command, currentTurn, aliveBees, targetBee, report, over,
                   hits, misses, chosen, damage, enq>>
    /\ UNCHANGED <<workerVars, consumerVars, deadBeeTurns>>
    /\ UNCHANGED sessionVars

\* GetBeesByType: the deferred g.mu.RUnlock()
GB_RUnlock ==
    /\ pc = "gb_rlocked"
    /\ mu' = RUnlock("main")
    /\ pc' = "ret"
    /\ UNCHANGED <<Config, Player, bees, Hive, AliveBees, Turns, damageEvent>>
    /\ UNCHANGED <<op, command, currentTurn, aliveBees, targetBee, report, over,
                   retBees, hits, misses, chosen, damage, enq>>
    /\ UNCHANGED <<workerVars, consumerVars, historyVars>>
    /\ UNCHANGED sessionVars

(***************************************************************************)
(* The damage-event monitor (consumer)                                     *)
(***************************************************************************)
\* Mutant of C_Receive: the event is read and left in the queue.
C_Receive_Peek ==
    /\ cpc = "wait" /\ damageEvent # <<>>
    /\ cDamage' = Head(damageEvent)
    /\ damageEvent' = damageEvent
    /\ cpc' = "recv"
    /\ UNCHANGED <<Config, Player, bees, Hive, AliveBees, Turns, mu>>
    /\ UNCHANGED <<cTurns, cPlayerHP, cAliveBees>>
    /\ UNCHANGED <<mainVars, workerVars, historyVars>>
    /\ cEventHP' = Head(eventHP)
    /\ eventHP' = eventHP
    /\ consumedLog' = Append(consumedLog, Head(damageEvent))
    /\ UNCHANGED <<ownVars, seen, raceVars, attempts, landedLog>>

\* for damage := range game.damageEvent
C_Receive ==
    /\ cpc = "wait" /\ damageEvent # <<>>
    /\ cDamage' = Head(damageEvent)
    /\ damageEvent' = Tail(damageEvent)
    /\ cpc' = "recv"
    /\ UNCHANGED <<Config, Player, bees, Hive, AliveBees, Turns, mu>>
    /\ UNCHANGED <<cTurns, cPlayerHP, cAliveBees>>
    /\ UNCHANGED <<mainVars, workerVars, historyVars>>
    /\ cEventHP' = Head(eventHP)
    /\ eventHP' = Tail(eventHP)
    /\ consumedLog' = Append(consumedLog, Head(damageEvent))
    /\ UNCHANGED <<ownVars, seen, raceVars, attempts, landedLog>>

\* Mutant of C_RLock: the monitor reports the health the player had when the
\* event was produced.
C_RLock_AtProduction ==
    /\ cpc = "recv" /\ CanRLock
    /\ mu' = RLock("consumer")
    /\ cTurns' = Turns
    /\ cPlayerHP' = cEventHP
    /\ cpc' = "rlocked"
    /\ UNCHANGED <<Config, Player, bees, Hive, AliveBees, Turns, damageEvent>>
    /\ UNCHANGED <<cDamage, cAliveBees>>
    /\ UNCHANGED <<mainVars, workerVars, historyVars>>
    /\ UNCHANGED sessionVars

\* game.mu.RLock(); turns := game.Turns; playerHP := game.Player.HP
C_RLock ==
    /\ cpc = "recv" /\ CanRLock
    /\ mu' = RLock("consumer")
    /\ cTurns' = Turns
    /\ cPlayerHP' = Player.HP
    /\ cpc' = "rlocked"
    /\ UNCHANGED <<Config, Player, bees, Hive, AliveBees, Turns, damageEvent>>
    /\ UNCHANGED <<cDamage, cAliveBees>>
    /\ UNCHANGED <<mainVars, workerVars, historyVars>>
    /\ UNCHANGED sessionVars

\* game.mu.RUnlock(); if turns > 0 { ... }: with turns = 0 the event is done.
C_RUnlock ==
    /\ cpc = "rlocked"
    /\ mu' = RUnlock("consumer")
    /\ IF cTurns > 0
       THEN /\ cpc' = "get"
            /\ UNCHANGED <<cDamage, cTurns, cPlayerHP>>
       ELSE /\ cpc' = "wait"
            /\ cDamage' = 0 /\ cTurns' = 0 /\ cPlayerHP' = 0
    /\ UNCHANGED cAliveBees
    /\ UNCHANGED <<Config, Player, bees, Hive, AliveBees, Turns, damageEvent>>
    /\ UNCHANGED <<mainVars, workerVars, historyVars>>
    /\ cEventHP' = IF cTurns > 0 THEN cEventHP ELSE 0
    /\ IF cTurns > 0 THEN seen' = seen ELSE Forget
    /\ UNCHANGED <<ownVars, eventHP, raceVars, attempts, logVars>>

\* aliveBees := len(game.GetAliveBees()), up to the return inside the lock.
C_GetAliveBees ==
    /\ cpc = "get" /\ CanLock
    /\ mu' = Lock("consumer")
    /\ AliveBees' = getAliveBeesUnsafe
    /\ cAliveBees' = getAliveBeesUnsafe
    /\ cpc' = "locked"
    /\ UNCHANGED <<Config, Player, bees, Hive, Turns, damageEvent>>
    /\ UNCHANGED <<cDamage, cTurns, cPlayerHP>>
    /\ UNCHANGED <<mainVars, workerVars, historyVars>>
    /\ UNCHANGED sessionVars

\* GetAliveBees: the deferred g.mu.Unlock(); then the monitor prints its
\* "Damage Alert" line from damage, turns, playerHP and len(aliveBees), and
\* goes back to the range loop.
C_Unlock ==
    /\ cpc = "locked"
    /\ mu' = Unlock
    /\ cpc' = "wait"
    /\ cDamage' = 0 /\ cTurns' = 0 /\ cPlayerHP' = 0 /\ cAliveBees' = <<>>
    /\ UNCHANGED <<Config, Player, bees, Hive, AliveBees, Turns, damageEvent>>
    /\ UNCHANGED <<mainVars, workerVars, historyVars>>
    /\ cEventHP' = 0
    /\ Forget
    /\ UNCHANGED <<ownVars, eventHP, raceVars, attempts, logVars>>

(***************************************************************************)
(* The specification                                                       *)
(***************************************************************************)
Next ==
    \/ CallPlayerTurn \/ PT_Unlock
    \/ CallPlayerAttack \/ PA_GetAliveBees \/ PA_Roll \/ PA_TakeDamage \/ PA_Check
    \/ CallKillAllBees \/ KA_Unlock
    \/ CallBeeTurn \/ BT_RUnlock \/ BT_GetAliveBees \/ BT_Dispatch
    \/ WorkerDecide \/ CloseDecisions
    \/ BT_Receive \/ BT_Resolve \/ BT_Unlock \/ BT_Send
    \/ CallIsGameOver \/ GO_RUnlock
    \/ CallGetAliveBees \/ GA_Unlock
    \/ CallGetBeesByType \/ GB_RUnlock
    \/ C_Receive \/ C_RLock \/ C_RUnlock \/ C_GetAliveBees \/ C_Unlock
    \/ Return

Spec == Init /\ [][Next]_vars

(***************************************************************************)
(* PlayGame and EndGame (main).  PlayGame calls IsGameOver, PlayerTurn and *)
(* BeeTurn from its loop; pg is its position between these calls.         *)
(***************************************************************************)
\* The lines standard input can hold.
Lines == {" HIT", "auto", "quit", "bees"}

\* strings.TrimSpace(strings.ToLower(line))
TrimLower(line) == IF line = " HIT" THEN "hit" ELSE line

\* What standard input holds when PlayGame starts; after the last line
\* scanner.Scan() returns false.  PlayGame reads nothing after "auto" or
\* "quit", so these are last lines.
Inputs ==
    {in \in UNION {[1..n -> Lines] : n \in 0..MaxInput} :
        \A k \in 1..(Len(in) - 1) : in[k] \notin {"auto", "quit"}}

\* The configurations PlayGame is run with.
PlayConfigs ==
    { GameConfig(ShortPlayerHP, DefaultPlayerMissChance, DefaultBeesMissChance, 0, 0, 1),
      GameConfig(ShortPlayerHP, DefaultPlayerMissChance, AlwaysMiss, 1, 0, 1) }

\* Mutant of AfterCommand: an unrecognised command plays a turn too.
AfterCommand_DefaultPlays(cmd) ==
    CASE cmd = "quit" -> "done"
      [] cmd = "auto" -> "top"
      [] OTHER -> "turn"

\* Mutant of AfterCommand: "quit" is treated like an unrecognised command.
AfterCommand_QuitIgnored(cmd) ==
    CASE cmd = "hit" -> "turn"
      [] OTHER -> "top"

\* switch input: where PlayGame goes on after the command.  "hit" plays a
\* turn, "quit" returns, "auto" and anything else start the next iteration.
AfterCommand(cmd) ==
    CASE cmd = "hit" -> "turn"
      [] cmd = "quit" -> "done"
      [] OTHER -> "top"

\* What every step of PlayGame between two calls leaves alone.
PG_Frame ==
    /\ UNCHANGED <<gameVars, consumerVars, deadBeeTurns>>
    /\ UNCHANGED <<playerAlive, verdict, missStreak, hitCount, eventHP, cEventHP, seen, raceVars, attempts, logVars>>

\* Mutant of PG_LoopTest: the body is entered whatever IsGameOver returned.
PG_LoopTest_BodyFirst ==
    /\ pg = "top" /\ pc = "ret"
    /\ pg' = "body"
    /\ ResetMain
    /\ PG_Frame
    /\ UNCHANGED <<AutoMode, stdin, input, inputLog>>

\* for !g.IsGameOver() { ... }; g.EndGame()
PG_LoopTest ==
    /\ pg = "top" /\ pc = "ret"
    /\ pg' = IF over THEN "end" ELSE "body"
    /\ ResetMain
    /\ PG_Frame
    /\ UNCHANGED <<AutoMode, stdin, input, inputLog>>

\* if g.AutoMode { g.PlayerTurn("hit"); ... }
PG_Auto ==
    /\ pg = "body" /\ pc = "idle" /\ AutoMode
    /\ pg' = "turn"
    /\ PG_Frame
    /\ UNCHANGED <<mainVars, workerVars, pre>>
    /\ UNCHANGED <<AutoMode, stdin, input, inputLog>>

\* else: if !scanner.Scan() { break }; input := ...; switch input { ... }
PG_Scan ==
    /\ pg = "body" /\ pc = "idle" /\ ~AutoMode
    /\ IF stdin = <<>>
       THEN /\ pg' = "end"
            /\ UNCHANGED <<AutoMode, stdin, input, inputLog>>
       ELSE LET cmd == TrimLower(Head(stdin))
            IN  /\ stdin' = Tail(stdin)
                /\ input' = cmd
                /\ inputLog' = Append(inputLog, cmd)
                /\ AutoMode' = IF cmd = "auto" THEN TRUE ELSE AutoMode
                /\ pg' = AfterCommand(cmd)
    /\ PG_Frame
    /\ UNCHANGED <<mainVars, workerVars, pre>>

\* PlayerTurn has returned (in auto mode followed by time.Sleep).
PG_AfterTurn ==
    /\ pg = "turn" /\ pc = "ret"
    /\ pg' = "check"
    /\ ResetMain
    /\ PG_Frame
    /\ UNCHANGED <<AutoMode, stdin, input, inputLog>>

\* Mutant of PG_Check: the loop is left after every player turn.
PG_Check_AlwaysBreaks ==
    /\ pg = "check" /\ pc = "ret"
    /\ pg' = "end"
    /\ ResetMain
    /\ PG_Frame
    /\ UNCHANGED <<AutoMode, stdin, input, inputLog>>

\* Mutant of PG_Check: the loop never breaks after the player's turn.
PG_Check_NeverBreaks ==
    /\ pg = "check" /\ pc = "ret"
    /\ pg' = "bees"
    /\ ResetMain
    /\ PG_Frame
    /\ UNCHANGED <<AutoMode, stdin, input, inputLog>>

\* if g.IsGameOver() { break }
PG_Check ==
    /\ pg = "check" /\ pc = "ret"
    /\ pg' = IF over THEN "end" ELSE "bees"
    /\ ResetMain
    /\ PG_Frame
    /\ UNCHANGED <<AutoMode, stdin, input, inputLog>>

\* g.BeeTurn() has returned: the loop starts over.
PG_AfterBees ==
    /\ pg = "bees" /\ pc = "ret"
    /\ pg' = "top"
    /\ ResetMain
    /\ PG_Frame
    /\ UNCHANGED <<AutoMode, stdin, input, inputLog>>

\* EndGame: g.mu.RLock(); playerAlive := g.Player.IsAlive(); turns := g.Turns
EG_RLock ==
    /\ pg = "end" /\ pc = "idle" /\ CanRLock
    /\ op' = "EndGame" /\ pre' = Snapshot
    /\ mu' = RLock("main")
    /\ playerAlive' = PlayerIsAlive(Player)
    /\ currentTurn' = Turns
    /\ pc' = "eg_rlocked"
    /\ UNCHANGED <<Config, Player, bees, Hive, AliveBees, Turns, damageEvent>>
    /\ UNCHANGED <<command, aliveBees, targetBee, report, over, retBees, hits,
                   misses, chosen, damage, enq>>
    /\ UNCHANGED <<workerVars, consumerVars, deadBeeTurns>>
    /\ UNCHANGED <<AutoMode, pg, stdin, input, verdict, inputLog, missStreak, hitCount>>
    /\ UNCHANGED <<eventHP, cEventHP, seen, raceVars, attempts, logVars>>

\* EndGame: g.mu.RUnlock(); if playerAlive { "YOU WON" } else { "YOU DIED" }
EG_RUnlock ==
    /\ pc = "eg_rlocked"
    /\ mu' = RUnlock("main")
    /\ verdict' = IF playerAlive THEN "won" ELSE "lost"
    /\ pc' = "eg_call"
    /\ UNCHANGED <<Config, Player, bees, Hive, AliveBees, Turns, damageEvent>>
    /\ UNCHANGED <<op, command, currentTurn, aliveBees, targetBee, report, over,
                   retBees, hits, misses, chosen, damage, enq>>
    /\ UNCHANGED <<workerVars, consumerVars, historyVars>>
    /\ UNCHANGED <<AutoMode, pg, stdin, input, playerAlive, inputLog, missStreak, hitCount>>
    /\ UNCHANGED <<eventHP, cEventHP, seen, raceVars, attempts, logVars>>

\* EndGame: aliveBees := g.GetAliveBees(), up to the return inside the lock.
EG_GetAliveBees ==
    /\ pc = "eg_call" /\ CanLock
    /\ mu' = Lock("main")
    /\ AliveBees' = getAliveBeesUnsafe
    /\ aliveBees' = getAliveBeesUnsafe
    /\ pc' = "eg_got"
    /\ UNCHANGED <<Config, Player, bees, Hive, Turns, damageEvent>>
    /\ UNCHANGED <<op, command, currentTurn, targetBee, report, over, retBees,
                   hits, misses, chosen, damage, enq>>
    /\ UNCHANGED <<workerVars, consumerVars, historyVars>>
    /\ UNCHANGED sessionVars

\* EndGame: the deferred Unlock of GetAliveBees; if len(aliveBees) > 0 the
\* three categories are counted.
EG_Unlock ==
    /\ pc = "eg_got"
    /\ mu' = Unlock
    /\ pc' = IF Len(aliveBees) > 0 THEN "eg_queens" ELSE "ret"
    /\ UNCHANGED <<Config, Player, bees, Hive, AliveBees, Turns, damageEvent>>
    /\ UNCHANGED <<op, command, currentTurn, aliveBees, targetBee, report, over,
                   retBees, hits, misses, chosen, damage, enq>>
    /\ UNCHANGED <<workerVars, consumerVars, historyVars>>
    /\ UNCHANGED sessionVars

\* EndGame: g.GetBeesByType(Queen), then (Worker), then (Drone); each call holds
\* the read lock from its first to its last statement and writes nothing.
EG_GetBeesByType ==
    /\ pc \in {"eg_queens", "eg_workers", "eg_drones"} /\ CanRLock
    /\ retBees' = GetBeesByType(CASE pc = "eg_queens" -> Queen
                                  [] pc = "eg_workers" -> Worker
                                  [] OTHER -> Drone)
    /\ pc' = CASE pc = "eg_queens" -> "eg_workers"
               [] pc = "eg_workers" -> "eg_drones"
               [] OTHER -> "ret"
    /\ UNCHANGED <<gameVars, workerVars, consumerVars, historyVars>>
    /\ UNCHANGED <<op, command, currentTurn, aliveBees, targetBee, report, over,
                   hits, misses, chosen, damage, enq>>
    /\ UNCHANGED sessionVars

\* EndGame has returned, and PlayGame with it.
PG_End ==
    /\ pg = "end" /\ pc = "ret"
    /\ pg' = "done"
    /\ playerAlive' = FALSE
    /\ ResetMain
    /\ UNCHANGED <<gameVars, consumerVars, deadBeeTurns>>
    /\ UNCHANGED <<AutoMode, stdin, input, verdict, inputLog, missStreak, hitCount>>
    /\ UNCHANGED <<eventHP, cEventHP, seen, raceVars, attempts, logVars>>

\* A game is constructed and PlayGame is called on it.
PlayInit ==
    /\ Config \in PlayConfigs
    /\ NewGameWithConfig
    /\ pg = "top" /\ stdin \in Inputs

\* The steps of the thread that runs PlayGame.
MainStep ==
    \/ PG_LoopTest \/ PG_Auto \/ PG_Scan \/ PG_AfterTurn \/ PG_Check \/ PG_AfterBees
    \/ EG_RLock \/ EG_RUnlock \/ EG_GetAliveBees \/ EG_Unlock \/ EG_GetBeesByType
    \/ PG_End
    \/ CallIsGameOver \/ GO_RUnlock
    \/ CallPlayerTurn \/ PT_Unlock
    \/ PA_GetAliveBees \/ PA_Roll \/ PA_TakeDamage \/ PA_Check \/ KA_Unlock
    \/ CallBeeTurn \/ BT_RUnlock \/ BT_GetAliveBees \/ BT_Dispatch
    \/ BT_Receive \/ BT_Resolve \/ BT_Unlock \/ BT_Send

\* The steps of the goroutines BeeTurn starts.
WorkerStep == WorkerDecide \/ CloseDecisions

\* The steps of the damage-event monitor.
ConsumerStep == C_Receive \/ C_RLock \/ C_RUnlock \/ C_GetAliveBees \/ C_Unlock

PlayNext == MainStep \/ WorkerStep \/ ConsumerStep

PlaySpec == PlayInit /\ [][PlayNext]_vars

\* The Go scheduler lets every goroutine that can run take its next step.
PlayLive ==
    /\ PlaySpec
    /\ WF_vars(MainStep) /\ WF_vars(WorkerStep) /\ WF_vars(ConsumerStep)

(***************************************************************************)
(* Bee.TakeDamage called directly on the bees of a hive                    *)
(***************************************************************************)
(***************************************************************************)
(* PlayGame with a second goroutine that calls KillAllBees                 *)
(***************************************************************************)
\* PlayerAttack: targetBee.TakeDamage() with another goroutine writing the
\* bees.  The call holds no lock, so its read of b.HP and its write of the
\* new value are separate steps.
PA_ReadHP ==
    /\ pc = "pa_damage"
    /\ hpRead' = bees[targetBee].HP
    /\ pc' = "pa_store"
    /\ UNCHANGED <<gameVars, workerVars, consumerVars, historyVars>>
    /\ UNCHANGED <<op, command, currentTurn, aliveBees, targetBee, report, over,
                   retBees, hits, misses, chosen, damage, enq>>
    /\ UNCHANGED <<ownVars, eventHP, cEventHP, seen, kpc, attempts, logVars>>

PA_StoreHP ==
    /\ pc = "pa_store"
    /\ bees' = [bees EXCEPT ![targetBee] =
                   BeeTakeDamage([bees[targetBee] EXCEPT !.HP = hpRead])]
    /\ hpRead' = 0
    /\ pc' = "pa_check"
    /\ UNCHANGED <<Config, Player, Hive, AliveBees, Turns, damageEvent, mu>>
    /\ UNCHANGED <<op, command, currentTurn, aliveBees, targetBee, report, over,
                   retBees, hits, misses, chosen, damage, enq>>
    /\ UNCHANGED <<workerVars, consumerVars, historyVars>>
    /\ Observe
    /\ UNCHANGED <<ownVars, eventHP, cEventHP, kpc, attempts, logVars>>

\* The second goroutine calls KillAllBees while PlayGame runs in auto mode:
\* g.mu.Lock() and the loop over the hive.
K_KillAllBees ==
    /\ kpc = "idle" /\ AutoMode /\ pg # "done" /\ CanLock
    /\ mu' = Lock("killer")
    /\ bees' = KillAllBees(bees)
    /\ AliveBees' = <<>>
    /\ kpc' = "locked"
    /\ UNCHANGED <<Config, Player, Hive, Turns, damageEvent>>
    /\ UNCHANGED <<mainVars, workerVars, consumerVars, historyVars>>
    /\ Observe
    /\ UNCHANGED <<ownVars, eventHP, cEventHP, hpRead, attempts, logVars>>

\* KillAllBees: the deferred g.mu.Unlock().
K_Unlock ==
    /\ kpc = "locked"
    /\ mu' = Unlock
    /\ kpc' = "done"
    /\ UNCHANGED <<Config, Player, bees, Hive, AliveBees, Turns, damageEvent>>
    /\ UNCHANGED <<mainVars, workerVars, consumerVars, historyVars>>
    /\ UNCHANGED <<ownVars, eventHP, cEventHP, seen, hpRead, attempts, logVars>>

KillerStep == K_KillAllBees \/ K_Unlock

\* The steps of the thread that runs PlayGame, TakeDamage in two steps.
RacingMainStep ==
    \/ PG_LoopTest \/ PG_Auto \/ PG_Scan \/ PG_AfterTurn \/ PG_Check \/ PG_AfterBees
    \/ EG_RLock \/ EG_RUnlock \/ EG_GetAliveBees \/ EG_Unlock \/ EG_GetBeesByType
    \/ PG_End
    \/ CallIsGameOver \/ GO_RUnlock
    \/ CallPlayerTurn \/ PT_Unlock
    \/ PA_GetAliveBees \/ PA_Roll \/ PA_ReadHP \/ PA_StoreHP \/ PA_Check \/ KA_Unlock
    \/ CallBeeTurn \/ BT_RUnlock \/ BT_GetAliveBees \/ BT_Dispatch
    \/ BT_Receive \/ BT_Resolve \/ BT_Unlock \/ BT_Send

KillNext == RacingMainStep \/ WorkerStep \/ ConsumerStep \/ KillerStep

KillSpec == PlayInit /\ [][KillNext]_vars

\* Every goroutine that can run takes its next step; the second goroutine
\* need not call KillAllBees at all, but a call it has begun returns.
KillLive ==
    /\ KillSpec
    /\ WF_vars(RacingMainStep) /\ WF_vars(WorkerStep) /\ WF_vars(ConsumerStep)
    /\ WF_vars(K_Unlock)

(***************************************************************************)
(* PlayGame called on a game that may be over already                      *)
(***************************************************************************)
\* The configurations of PlayConfigs and one without bees.
StartConfigs ==
    PlayConfigs \cup
    { GameConfig(ShortPlayerHP, DefaultPlayerMissChance, DefaultBeesMissChance, 0, 0, 0) }

\* What was done to the game between its construction and the call of
\* PlayGame: nothing, a call of KillAllBees, or the player brought to 0.
Setups == {"none", "KillAllBees", "PlayerDead"}

StartInit ==
    /\ Config \in StartConfigs
    /\ NewGameRest
    /\ \E setup \in Setups :
          /\ Player = [HP |-> IF setup = "PlayerDead" THEN 0 ELSE Config.PlayerHP,
                       MaxHP |-> Config.PlayerHP]
          /\ bees = IF setup = "KillAllBees"
                    THEN KillAllBees(initializeHive(Config).bees)
                    ELSE initializeHive(Config).bees
          /\ AliveBees = IF setup = "KillAllBees" THEN <<>>
                         ELSE initializeHive(Config).AliveBees
    /\ seen = {Observed}
    /\ pg = "top" /\ stdin \in Inputs

StartSpec == StartInit /\ [][PlayNext]_vars

StartLive ==
    StartSpec /\ WF_vars(MainStep) /\ WF_vars(WorkerStep) /\ WF_vars(ConsumerStep)

\* A hive with one bee of each category.
BeeConfig == GameConfig(ShortPlayerHP, DefaultPlayerMissChance, DefaultBeesMissChance, 1, 1, 1)

BeeInit ==
    /\ Config = BeeConfig
    /\ NewGameWithConfig
    /\ pg = "api" /\ stdin = <<>>

\* bee.TakeDamage() on one bee of the hive, alive or not.
BeeHit ==
    \E i \in DOMAIN bees :
        /\ hitCount[i] < MaxBeeHits
        /\ bees' = [bees EXCEPT ![i] = BeeTakeDamage(@)]
        /\ hitCount' = [hitCount EXCEPT ![i] = @ + 1]
        /\ UNCHANGED <<Config, Player, Hive, AliveBees, Turns, damageEvent, mu>>
        /\ UNCHANGED <<mainVars, workerVars, consumerVars, historyVars>>
        /\ Observe
        /\ UNCHANGED <<playVars, missStreak, eventHP, cEventHP, raceVars, attempts, logVars>>

BeeNext == BeeHit

BeeSpec == BeeInit /\ [][BeeNext]_vars

(***************************************************************************)
(* The player's attacks on a hive with one bee of each category            *)
(***************************************************************************)
AttackInit == BeeInit

AttackNext ==
    \/ CallPlayerTurn \/ PT_Unlock
    \/ CallPlayerAttack \/ PA_GetAliveBees \/ PA_Roll \/ PA_TakeDamage \/ PA_Check
    \/ KA_Unlock
    \/ Return

AttackSpec == AttackInit /\ [][AttackNext]_vars

(***************************************************************************)
(* A game as constructed, looked at through its read operations            *)
(***************************************************************************)
PlayerStartingHP == 100
DefaultQueenCount == 1
DefaultWorkerCount == 5
DefaultDroneCount == 25

DefaultConfig ==
    GameConfig(PlayerStartingHP, DefaultPlayerMissChance, DefaultBeesMissChance,
               DefaultQueenCount, DefaultWorkerCount, DefaultDroneCount)

\* The configurations a game is constructed with here: the default one, and
\* those with a category left out, a second Queen or another player health.
NewConfigs ==
    { GameConfig(hp, DefaultPlayerMissChance, DefaultBeesMissChance, q, w, d) :
        hp \in {ShortPlayerHP, PlayerStartingHP},
        q \in {0, DefaultQueenCount, DefaultQueenCount + 1},
        w \in {0, DefaultWorkerCount},
        d \in {0, DefaultDroneCount} }

NewInit ==
    /\ Config \in NewConfigs
    /\ NewGameWithConfig
    /\ pg = "api" /\ stdin = <<>>

\* Only operations that read the game are called, so the monitor goroutine
\* never receives an event.
NewNext ==
    \/ CallIsGameOver \/ GO_RUnlock
    \/ CallGetAliveBees \/ GA_Unlock
    \/ CallGetBeesByType \/ GB_RUnlock
    \/ Return

NewSpec == NewInit /\ [][NewNext]_vars

(***************************************************************************)
(* Vocabulary of the properties                                            *)
(***************************************************************************)
Max0(n) == IF n < 0 THEN 0 ELSE n
SeqRange(q) == {q[k] : k \in 1..Len(q)}
BeeIds == DOMAIN bees
QueenIds == {i \in BeeIds : bees[i].Type = Queen}
AllBeesDead == \A i \in BeeIds : bees[i].HP = 0
\* The alive count any caller would now get from GetAliveBees and GetBeesByType.
NoBeeReported ==
    /\ Len(getAliveBeesUnsafe) = 0
    /\ \A t \in BeeTypes : Len(GetBeesByType(t)) = 0
\* The operation in progress has run to its end and is about to return.
Returning(o) == pc = "ret" /\ op = o
\* The PlayerAttack in progress (called on its own or by PlayerTurn) has hit a
\* Queen and brought its health to 0.
AttackKilledQueen ==
    /\ op \in {"PlayerAttack", "PlayerTurn"}
    /\ report = "hit"
    /\ targetBee \in QueenIds
    /\ pre.bees[targetBee].HP > 0
    /\ bees[targetBee].HP = 0
\* The thread taking the step: every step of the monitor moves cpc.
Stepper == IF cpc' # cpc THEN "consumer" ELSE "main"

(***************************************************************************)
(* C1..C10                                                                 *)
(***************************************************************************)
\* C1: when a PlayerAttack that brought a Queen's health to 0 returns, every
\* bee of every category has health 0 and the alive count is 0.
C1_QueenDeathKillsHive ==
    (pc = "ret" /\ AttackKilledQueen) => (AllBeesDead /\ NoBeeReported)

\* C1 witness: such an attack returns in a hive where a bee other than its
\* target was alive when it was called.
C1_Witness ==
    /\ pc = "ret" /\ AttackKilledQueen
    /\ \E i \in BeeIds : i # targetBee /\ pre.bees[i].HP > 0
    /\ AllBeesDead

\* C1, the case of several Queens: such an attack returns in a hive whose
\* other Queen was alive when it was called.
C1_TwoQueens ==
    /\ pc = "ret" /\ AttackKilledQueen
    /\ \E i \in QueenIds : i # targetBee /\ pre.bees[i].HP > 0

\* C2 (as claimed): the list a concurrent reader gets from GetAliveBees never
\* shows the cascade half done: a list that lacks a Queen is empty.
C2_CascadeAtomic ==
    cpc = "locked" => (cAliveBees = <<>> \/ QueenIds \subseteq SeqRange(cAliveBees))

\* C3: a BeeTurn started with at least one alive bee and a living player ends
\* with exactly one of: the player's health decreased, a miss reported with
\* the health unchanged.
C3_StingXorBuzz ==
    (Returning("BeeTurn") /\ Len(aliveBees) >= 1 /\ pre.HP > 0) =>
        /\ report \in {"sting", "buzz"}
        /\ report = "sting" => Player.HP < pre.HP
        /\ report = "buzz" => Player.HP = pre.HP

\* C3 witness: a turn in which some decisions were hits and some were misses.
C3_Witness ==
    /\ Returning("BeeTurn") /\ pre.HP > 0
    /\ Len(hits) >= 1 /\ Len(misses) >= 1
    /\ report = "sting" /\ Player.HP < pre.HP

\* C4: the damage a BeeTurn applies is the Damage of exactly one bee, one that
\* decided to hit: the player's health is max(0, old - that Damage).
C4_SingleAttackLands ==
    (op = "BeeTurn" /\ pc \in {"bt_locked", "bt_send", "ret"} /\ report = "sting") =>
        /\ chosen.Bee \in SeqRange(aliveBees)
        /\ wk[chosen.Bee] = "hit"
        /\ damage = bees[chosen.Bee].Damage
        /\ Player.HP = Max0(pre.HP - bees[chosen.Bee].Damage)

\* C4 witness: two bees of different Damage both decided to hit, and the health
\* went down by the Damage of one of them only.
C4_Witness ==
    /\ Returning("BeeTurn") /\ report = "sting"
    /\ Len(hits) = 2
    /\ bees[hits[1].Bee].Damage # bees[hits[2].Bee].Damage
    /\ Player.HP = pre.HP - bees[chosen.Bee].Damage
    /\ Player.HP > 0

\* C5: the send of the damage event never blocks BeeTurn (it is enabled
\* whenever BeeTurn is at it); on a full queue BeeTurn returns with the damage
\* applied and the queue as it was; and the queue only ever grows by the damage
\* of the turn that is at its send, so a dropped event is never queued later.
C5_SendNeverBlocks ==
    /\ [](pc = "bt_send" => ENABLED BT_Send)
    /\ [][(pc = "bt_send" /\ pc' # pc /\ Len(damageEvent) = DamageEventCap) =>
            /\ pc' = "ret"
            /\ damageEvent' = damageEvent
            /\ Player' = Player
            /\ Player.HP = Max0(pre.HP - damage)]_vars
    /\ [][Len(damageEvent') > Len(damageEvent) =>
            /\ pc = "bt_send" /\ pc' = "ret"
            /\ damageEvent' = Append(damageEvent, damage)]_vars

\* C5 witness: a BeeTurn returns having hurt a living player and dropped its
\* event on a queue of 10.
C5_Witness ==
    /\ Returning("BeeTurn") /\ enq = "dropped"
    /\ Len(damageEvent) = DamageEventCap
    /\ Player.HP < pre.HP

\* C6: the number of pending damage events is between 0 and 10.
C6_QueueBounded == Len(damageEvent) >= 0 /\ Len(damageEvent) <= DamageEventCap

\* C6 witness: BeeTurn is at its send with 10 events pending.
C6_Witness == pc = "bt_send" /\ Len(damageEvent) = DamageEventCap

\* C7 (as claimed): every step that changes a bee's HP, the player's HP, the
\* turn counter or the cached alive list is taken by a thread that holds the
\* exclusive lock.
C7_WritesHoldLock ==
    [][(bees' # bees \/ Player' # Player \/ Turns' # Turns \/ AliveBees' # AliveBees)
         => mu'.w = Stepper]_vars

C9_PlayerTurnAddsOne ==
    Returning("PlayerTurn") => Turns = pre.Turns + 1

\* C9 witness: the second of two calls, made with an unrecognised command,
\* returns with Turns = 2.
C9_Witness ==
    /\ Returning("PlayerTurn") /\ command = "invalid"
    /\ pre.Turns = 1 /\ Turns = 2

\* C10: the turn counter changes only in the step PlayerTurn is called with,
\* and then by +1; every other operation returns with the counter it was
\* called with.
C10_OnlyPlayerTurnCounts ==
    /\ [][Turns' # Turns =>
            (Turns' = Turns + 1 /\ pc = "idle" /\ op' = "PlayerTurn")]_vars
    /\ [](pc = "ret" /\ op # "PlayerTurn" => Turns = pre.Turns)

\* C10 witness: a BeeTurn that stung the player returns after a PlayerTurn with
\* the counter unchanged.
C10_Witness ==
    /\ Returning("BeeTurn") /\ report = "sting"
    /\ Turns > 0 /\ Turns = pre.Turns

(***************************************************************************)
(* C11..C20                                                                *)
(***************************************************************************)
\* ceil(h / d) for positive h and d
CeilDiv(h, d) == (h + d - 1) \div d

\* C11: after j calls of TakeDamage a bee of a category with starting health H
\* and damage per hit D has health max(0, H - j*D); it is alive iff its health
\* is above 0, so alive after fewer than ceil(H/D) hits and dead from hit
\* ceil(H/D) on.
C11_HealthAfterHits ==
    \A i \in BeeIds :
        LET H == BeeStatsTable[bees[i].Type].HP
            D == BeeStatsTable[bees[i].Type].TakesDamage
            j == hitCount[i]
        IN  /\ bees[i].HP = Max0(H - j * D)
            /\ BeeIsAlive(bees[i]) <=> bees[i].HP > 0
            /\ j < CeilDiv(H, D) => BeeIsAlive(bees[i]) /\ bees[i].HP = H - j * D
            /\ j >= CeilDiv(H, D) => ~BeeIsAlive(bees[i]) /\ bees[i].HP = 0

\* The Queen has 10 health left after hit 9 and is dead after hit 10; the
\* Worker and the Drone have been hit past their death.
C11_Witness ==
    /\ \E i \in BeeIds :
          /\ bees[i].Type = Queen /\ hitCount[i] = 10 /\ bees[i].HP = 0
    /\ \E i \in BeeIds :
          /\ bees[i].Type = Worker /\ hitCount[i] = 4 /\ bees[i].HP = 0
    /\ \E i \in BeeIds :
          /\ bees[i].Type = Drone /\ hitCount[i] = 3 /\ bees[i].HP = 0

\* C12: in every reachable state the player's health lies in [0, MaxHP] and so
\* does every bee's; a sting of at least the remaining health, and a sting on a
\* player already at 0, leave the health at 0.
C12_HealthInRange ==
    /\ Player.MaxHP = Config.PlayerHP
    /\ Player.HP \in 0..Player.MaxHP
    /\ \A i \in BeeIds :
          /\ bees[i].MaxHP = BeeStatsTable[bees[i].Type].HP
          /\ bees[i].HP \in 0..bees[i].MaxHP
    /\ Returning("BeeTurn") /\ report = "sting" /\ damage >= pre.HP => Player.HP = 0

\* A BeeTurn has stung a player who was already at 0.
C12_Witness ==
    /\ Returning("BeeTurn") /\ report = "sting"
    /\ pre.HP = 0 /\ damage > 0 /\ Player.HP = 0

\* A BeeTurn has stung a living player for more than the health that was left.
C12_OverDamage ==
    /\ Returning("BeeTurn") /\ report = "sting"
    /\ pre.HP > 0 /\ damage > pre.HP /\ Player.HP = 0

\* C13: IsGameOver returns true exactly when the player's health is 0 or no
\* bee of the hive has health above 0.
C13_GameOverIff ==
    Returning("IsGameOver") =>
        (over <=> (Player.HP = 0 \/ \A i \in BeeIds : ~(bees[i].HP > 0)))

\* IsGameOver has returned true for a dead player whose hive still has a bee.
C13_Witness ==
    /\ Returning("IsGameOver") /\ over
    /\ Player.HP = 0 /\ ~AllBeesDead

\* IsGameOver has returned true right after KillAllBees, the player alive.
C13_AfterKillAllBees ==
    /\ Returning("IsGameOver") /\ over
    /\ Player.HP > 0 /\ AllBeesDead /\ BeeIds # {} /\ Turns = 0

\* IsGameOver has returned false for a game nothing has been done to.
C13_FreshGame ==
    /\ Returning("IsGameOver") /\ ~over
    /\ Turns = 0 /\ Player.HP = Config.PlayerHP
    /\ bees = initializeHive(Config).bees

\* C14: once PlayGame has returned, the damage-event monitor eventually
\* terminates.  "stopped" is the monitor's position after its range loop, which
\* it reaches when the channel is closed and drained.
C14_MonitorStops == (pg = "done") ~> (cpc = "stopped")

\* C15: a BeeTurn called when no bee is alive is a no-op: it starts no decision
\* goroutine, never gets to the attack or to the event queue, reports nothing,
\* and leaves the player's health, every bee's health and Turns as they were.
C15_EmptyBeeTurnNoOp ==
    (op = "BeeTurn" /\ \A i \in DOMAIN pre.bees : pre.bees[i].HP = 0) =>
        /\ \A i \in DOMAIN wk : wk[i] = "none"
        /\ wg = 0 /\ decisionChan = <<>>
        /\ pc \in {"bt_rlocked", "bt_call", "bt_got", "ret"}
        /\ Snapshot = pre
        /\ report = "none" /\ damage = 0 /\ enq = "none"

\* A BeeTurn called on a hive whose bees have all died has run to its end.
C15_Witness ==
    /\ Returning("BeeTurn")
    /\ BeeIds # {} /\ \A i \in DOMAIN pre.bees : pre.bees[i].HP = 0
    /\ Player.HP > 0 /\ Turns > 0

\* C16: EndGame announces a victory only if every bee is dead, and a defeat
\* only if the player's health is 0, whichever way PlayGame got to EndGame.
C16_VerdictSound ==
    /\ verdict = "won" => AllBeesDead
    /\ verdict = "lost" => Player.HP = 0

\* The bees with health above 0.
AliveIds == {i \in BeeIds : bees[i].HP > 0}

\* C17: the hive keeps the bees it was initialised with, the number of alive
\* bees never goes up, and what GetAliveBees and GetBeesByType return are
\* exactly alive bees: never more than the configured total, each with health
\* above 0, GetAliveBees all of them.
C17_AliveNeverGrows ==
    /\ [](/\ Len(bees) = TotalBees(Config)
          /\ Returning("GetAliveBees") =>
                /\ SeqRange(retBees) = AliveIds
                /\ Len(retBees) = Cardinality(AliveIds)
                /\ Len(retBees) <= TotalBees(Config)
          /\ Returning("GetBeesByType") =>
                /\ SeqRange(retBees) \subseteq AliveIds
                /\ Len(retBees) = Cardinality(SeqRange(retBees))
                /\ \E t \in BeeTypes :
                      SeqRange(retBees) = {i \in AliveIds : bees[i].Type = t})
    /\ [][/\ DOMAIN bees' = DOMAIN bees
          /\ \A i \in BeeIds : bees'[i].Type = bees[i].Type
          /\ {i \in BeeIds : bees'[i].HP > 0} \subseteq AliveIds
          /\ Len(AliveBees') <= Len(AliveBees)]_vars

\* GetAliveBees has returned fewer bees than the hive holds, but not none.
C17_Witness ==
    /\ Returning("GetAliveBees")
    /\ Len(retBees) > 0 /\ Len(retBees) < TotalBees(Config)

\* No command read so far was "hit" or "auto".
NothingPlayed == \A k \in 1..Len(inputLog) : inputLog[k] \notin {"hit", "auto"}

\* C18: in PlayGame, reading "auto", "quit" or an unrecognised command changes
\* neither Turns nor any health and starts neither PlayerTurn nor BeeTurn: the
\* loop starts over or PlayGame returns.  PlayerTurn and BeeTurn run only for a
\* "hit" or in auto mode, and as long as no "hit" and no "auto" has been read
\* Turns is 0 and every health is as the game started.
C18_OnlyHitAdvances ==
    /\ [][(Len(stdin') < Len(stdin) /\ input' # "hit") =>
            /\ Turns' = Turns /\ Player' = Player /\ bees' = bees
            /\ pc = "idle" /\ pc' = "idle" /\ op' = "none"
            /\ pg' = IF input' = "quit" THEN "done" ELSE "top"]_vars
    /\ [](pg \in {"turn", "check", "bees"} => (AutoMode \/ input = "hit"))
    /\ [](op \in {"PlayerTurn", "BeeTurn"} => (AutoMode \/ input = "hit"))
    /\ [](NothingPlayed =>
            /\ Turns = 0 /\ Player.HP = Config.PlayerHP
            /\ bees = initializeHive(Config).bees)

\* PlayGame has returned after an unrecognised command and "quit".
C18_Witness ==
    /\ pg = "done" /\ inputLog = <<"bees", "quit">>
    /\ Turns = 0 /\ verdict = "none"

\* C19: once auto mode is on, PlayGame reads no more input, leaves its loop
\* only when IsGameOver has returned true, hence only with the player dead or
\* every bee dead, and, with attacks that do not miss for ever, it does get
\* there: EndGame announces the result and PlayGame returns.
C19_AutoPlaysToTheEnd ==
    /\ [][AutoMode => /\ stdin' = stdin
                      /\ AutoMode'
                      /\ (pg # "end" /\ pg' = "end") => over]_vars
    /\ [](AutoMode /\ pg \in {"end", "done"} => (Player.HP = 0 \/ AllBeesDead))
    /\ [](AutoMode /\ pg = "done" => verdict \in {"won", "lost"})
    /\ (AutoMode ~> (pg = "done"))

\* A game switched to auto mode has been played until the player died.
C19_Witness ==
    /\ AutoMode /\ pg = "done" /\ verdict = "lost"
    /\ Player.HP = 0 /\ ~AllBeesDead /\ Turns >= 2

\* A game switched to auto mode has been played until the Queen died.
C19_Victory ==
    /\ AutoMode /\ pg = "done" /\ verdict = "won"
    /\ AllBeesDead /\ Turns >= 10

\* The number of bees of a category the configuration asks for.
ConfiguredCount(t) ==
    CASE t = Queen -> Config.QueenCount
      [] t = Worker -> Config.WorkerCount
      [] OTHER -> Config.DroneCount

\* C20: a new game has the player at full configured health, Turns 0, auto
\* mode off, an empty event queue and exactly the configured number of bees of
\* each category, each alive at its category's full health (31 bees by
\* default); IsGameOver is false on it exactly when the configured total is
\* above 0.
C20_NewGame ==
    /\ Player.HP = Config.PlayerHP /\ Player.MaxHP = Config.PlayerHP
    /\ Turns = 0 /\ AutoMode = FALSE /\ damageEvent = <<>>
    /\ Len(bees) = TotalBees(Config)
    /\ Config = DefaultConfig => Player.HP = 100 /\ Len(bees) = 31
    /\ \A t \in BeeTypes :
          /\ Len(Hive[t]) = ConfiguredCount(t)
          /\ Cardinality({i \in BeeIds : bees[i].Type = t}) = ConfiguredCount(t)
          /\ SeqRange(Hive[t]) = {i \in BeeIds : bees[i].Type = t}
    /\ \A i \in BeeIds :
          /\ bees[i].HP = BeeStatsTable[bees[i].Type].HP
          /\ bees[i].MaxHP = BeeStatsTable[bees[i].Type].HP
          /\ bees[i].Damage = BeeStatsTable[bees[i].Type].Damage
          /\ BeeIsAlive(bees[i])
    /\ SeqRange(AliveBees) = BeeIds /\ Len(AliveBees) = TotalBees(Config)
    /\ Returning("IsGameOver") => (~over <=> TotalBees(Config) > 0)
    /\ Returning("GetAliveBees") => Len(retBees) = TotalBees(Config)
    /\ Returning("GetBeesByType") =>
          \E t \in BeeTypes :
              /\ Len(retBees) = ConfiguredCount(t)
              /\ \A k \in 1..Len(retBees) : bees[retBees[k]].Type = t

\* IsGameOver has returned false on the default game: 1 Queen, 5 Workers and
\* 25 Drones.
C20_Witness ==
    /\ Returning("IsGameOver") /\ ~over
    /\ Config = DefaultConfig
    /\ Len(GetBeesByType(Queen)) = 1 /\ Len(GetBeesByType(Worker)) = 5
    /\ Len(GetBeesByType(Drone)) = 25

\* IsGameOver has returned true on a new game configured with no bee.
C20_NoBees ==
    /\ Returning("IsGameOver") /\ over
    /\ TotalBees(Config) = 0 /\ Player.HP = Config.PlayerHP

(***************************************************************************)
(* C21..C30                                                                *)
(***************************************************************************)
\* The decision records of the BeeTurn in progress: collected and in flight.
Records == hits \o misses \o decisionChan

\* The BeeTurn in progress has started its decision goroutines.
Dispatched == op = "BeeTurn" /\ pc \in {"bt_collect", "bt_locked", "bt_send", "ret"}

\* C21: a BeeTurn with N bees in its snapshot starts exactly N decision
\* goroutines, one per bee of the snapshot; the records sent are one per
\* finished goroutine, none lost and none twice; and the player's health, the
\* bees' health, Turns and the event queue are untouched until all N records
\* have been collected.
C21_FanOutFanIn ==
    /\ Dispatched =>
          /\ {i \in DOMAIN wk : wk[i] # "none"} = SeqRange(aliveBees)
          /\ Cardinality(SeqRange(aliveBees)) = Len(aliveBees)
          /\ {Records[k].Bee : k \in 1..Len(Records)}
                = {i \in DOMAIN wk : wk[i] \in {"hit", "miss"}}
          /\ Cardinality({Records[k].Bee : k \in 1..Len(Records)}) = Len(Records)
          /\ \A k \in 1..Len(Records) :
                Records[k].WillHit <=> wk[Records[k].Bee] = "hit"
          /\ wg = Cardinality({i \in DOMAIN wk : wk[i] = "run"})
    /\ (Dispatched /\ pc # "bt_collect") =>
          /\ Len(hits) + Len(misses) = Len(aliveBees)
          /\ decisionChan = <<>>
    /\ (op = "BeeTurn" /\ pc \in {"bt_rlocked", "bt_call", "bt_got", "bt_collect"}) =>
          /\ Snapshot = pre
          /\ enq = "none" /\ damage = 0 /\ report = "none"

\* A BeeTurn with two bees in its snapshot has collected both records, one a
\* hit and one a miss, and has stung the player.
C21_Witness ==
    /\ Returning("BeeTurn") /\ Len(aliveBees) = 2
    /\ Len(hits) = 1 /\ Len(misses) = 1
    /\ report = "sting" /\ Player.HP < pre.HP

\* C22: every BeeTurn terminates.  A decision goroutine that has not sent yet
\* always finds room in the decision channel, the channel is closed only when
\* every goroutine has sent, and with every goroutine scheduled a BeeTurn that
\* was called returns.
C22_BeeTurnTerminates ==
    /\ []((\E i \in DOMAIN wk : wk[i] = "run") =>
             /\ Len(decisionChan) < Len(aliveBees)
             /\ ~closed
             /\ ENABLED WorkerDecide)
    /\ [](closed => wg = 0 /\ \A i \in DOMAIN wk : wk[i] # "run")
    /\ ((op = "BeeTurn") ~> Returning("BeeTurn"))

\* A BeeTurn with two decision goroutines has closed its channel and returned.
C22_Witness ==
    /\ Returning("BeeTurn") /\ Len(aliveBees) = 2 /\ closed
    /\ \A i \in DOMAIN wk : wk[i] \in {"hit", "miss"}

\* C23: BeeTurn gets to its send on the event queue only when an attack has
\* landed in this turn and its damage has been applied to the player; what it
\* offers is the Damage of the chosen bee, one of those that hit.  A turn in
\* which every bee missed does not get there, and no turn gets there twice.
C23_EnqueueAfterDamage ==
    /\ pc = "bt_send" =>
          /\ report = "sting" /\ Landed(hits)
          /\ \E k \in 1..Len(hits) : chosen = hits[k]
          /\ damage = bees[chosen.Bee].Damage
          /\ Player.HP = Max0(pre.HP - damage)
          /\ mu.w # "main"
          /\ enq = "none"
          /\ SelectSend(damageEvent, damage)
                \subseteq {damageEvent, Append(damageEvent, bees[chosen.Bee].Damage)}
    /\ (op = "BeeTurn" /\ enq # "none") =>
          /\ pc = "ret" /\ report = "sting" /\ Landed(hits)
          /\ Player.HP = Max0(pre.HP - damage)
    /\ (Returning("BeeTurn") /\ ~Landed(hits)) => enq = "none" /\ damage = 0
    /\ op # "BeeTurn" => enq = "none"

\* A BeeTurn in which the Queen and the Drone both hit has applied the damage
\* of one of them and queued it.
C23_Witness ==
    /\ Returning("BeeTurn") /\ Len(hits) = 2 /\ enq = "queued"
    /\ damage = bees[chosen.Bee].Damage
    /\ Player.HP = Max0(pre.HP - damage) /\ pre.HP > 0

\* A BeeTurn in which every bee missed has returned without a send.
C23_AllMissed ==
    /\ Returning("BeeTurn") /\ Len(aliveBees) > 0 /\ Len(hits) = 0
    /\ report = "buzz" /\ enq = "none"

\* C24: in PlayGame a BeeTurn is in progress only in the loop's bee step, and it
\* was called with the player alive, a bee alive and no Queen dead: the player
\* turn before it, Queen cascade included, was complete and had not ended the
\* game.  While a player turn is in progress no decision goroutine runs and
\* the decision channel is empty.  From the moment a Queen is dead no step
\* changes the player.
C24_TurnsNeverInterleave ==
    /\ [](op = "BeeTurn" =>
            /\ pg = "bees"
            /\ pre.HP > 0
            /\ \E i \in BeeIds : pre.bees[i].HP > 0
            /\ \A q \in QueenIds : pre.bees[q].HP > 0)
    /\ [](op \in {"PlayerTurn", "PlayerAttack", "KillAllBees"} =>
            /\ pg = "turn"
            /\ \A i \in DOMAIN wk : wk[i] # "run"
            /\ decisionChan = <<>>)
    /\ [](pg = "bees" => \A q \in QueenIds : bees[q].HP > 0)
    /\ [][(\E q \in QueenIds : bees[q].HP = 0) => Player' = Player]_vars

\* PlayGame has ended after a hit killed the Queen: the cascade has emptied the
\* hive, no BeeTurn followed and the player is as the last BeeTurn left them.
C24_Witness ==
    /\ pg = "done" /\ QueenIds # {} /\ AllBeesDead
    /\ Turns >= 1 /\ verdict = "won"

\* A BeeTurn is in progress after a player turn that hit without ending the game.
C24_BeeTurnAfterHit ==
    /\ pg = "bees" /\ op = "BeeTurn" /\ pc = "bt_collect"
    /\ \E i \in BeeIds : bees[i].HP < BeeStatsTable[bees[i].Type].HP

\* Thread t holds the state lock, for writing or for reading.
Holds(t) == mu.w = t \/ t \in mu.r
\* The positions of the main thread between an acquisition of the lock and its
\* release, and those of the monitor.
MainLockedAt ==
    {"pt_locked", "pa_got", "ka_locked", "bt_rlocked", "bt_got", "bt_locked",
     "go_rlocked", "ga_locked", "gb_rlocked", "eg_rlocked", "eg_got"}
ConsumerLockedAt == {"rlocked", "locked"}

\* C25: a thread holds the state lock exactly between an acquisition and the
\* matching release, so wherever it is about to acquire the lock (PlayerAttack,
\* BeeTurn and EndGame before GetAliveBees, the monitor before its RLock and
\* before GetAliveBees) it holds none; it holds none while waiting on the
\* event queue or collecting from the decision channel, and the decision
\* goroutines never hold it; a writer excludes readers.  With every thread
\* scheduled fairly PlayGame reaches its end and the monitor finishes every
\* event it has received.
C25_NoDeadlock ==
    /\ [](Holds("main") <=> pc \in MainLockedAt)
    /\ [](Holds("consumer") <=> cpc \in ConsumerLockedAt)
    /\ [](mu.w # "none" => mu.r = {})
    /\ [](mu.w \in {"none", "main", "consumer"} /\ mu.r \subseteq {"main", "consumer"})
    /\ <>(pg = "done")
    /\ ((cpc # "wait") ~> (cpc = "wait"))

\* BeeTurn is about to call GetAliveBees, lock-free, while the monitor holds
\* the read lock for an earlier event: the main thread has to wait for it.
C25_Witness ==
    /\ pc = "bt_call" /\ cpc = "rlocked"
    /\ ~Holds("main") /\ Holds("consumer") /\ ~ENABLED BT_GetAliveBees

\* The monitor is about to call GetAliveBees with its read lock released.
C25_MonitorReleased ==
    /\ cpc = "get" /\ ~Holds("consumer") /\ pg # "done"

\* An attack by the player (PlayerAttack, called directly or by PlayerTurn) is
\* returning with report r.
AttackReturning(r) ==
    /\ pc = "ret" /\ op \in {"PlayerAttack", "PlayerTurn"} /\ report = r

\* C26: when a player attack that hit returns, its target was alive when the
\* attack read the hive, the target's health is what it was before minus its
\* category's TakesDamage, not below 0, and the player and every other bee are
\* as before -- unless the target is a Queen now at 0, and then every bee is
\* at 0.  The cascade is entered only for a Queen.
C26_HitFrame ==
    /\ AttackReturning("hit") =>
          LET b == pre.bees[targetBee]
              hp == Max0(b.HP - BeeStatsTable[b.Type].TakesDamage)
          IN  /\ targetBee \in BeeIds
              /\ targetBee \in SeqRange(aliveBees)
              /\ b.HP > 0
              /\ Player.HP = pre.HP
              /\ bees[targetBee].HP = hp
              /\ IF b.Type = Queen /\ hp = 0
                 THEN AllBeesDead
                 ELSE bees = [pre.bees EXCEPT ![targetBee].HP = hp]
    /\ (pc = "ka_locked" /\ op \in {"PlayerAttack", "PlayerTurn"}) =>
          bees[targetBee].Type = Queen

\* A hit has killed the Worker and the Queen and the Drone are untouched.
C26_Witness ==
    /\ AttackReturning("hit")
    /\ bees[targetBee].Type = Worker /\ bees[targetBee].HP = 0
    /\ \E i \in BeeIds : bees[i].Type = Queen /\ bees[i].HP = QueenHP
    /\ \E i \in BeeIds : bees[i].Type = Drone /\ bees[i].HP = DroneHP

\* A hit has killed the Queen while the Worker and the Drone were alive.
C26_QueenCascade ==
    /\ AttackReturning("hit") /\ AttackKilledQueen /\ AllBeesDead
    /\ \E i \in BeeIds : pre.bees[i].Type = Worker /\ pre.bees[i].HP > 0
    /\ \E i \in BeeIds : pre.bees[i].Type = Drone /\ pre.bees[i].HP > 0

\* C27: when a player attack that missed returns, the hive it read was not
\* empty, and every bee, the list of bees alive and the player are as they
\* were before the attack.
C27_MissFrame ==
    AttackReturning("miss") =>
        /\ Len(aliveBees) > 0
        /\ bees = pre.bees
        /\ getAliveBeesUnsafe = aliveBees
        /\ Player.HP = pre.HP

\* A miss returns against a hive in which an earlier hit has hurt a bee.
C27_Witness ==
    /\ AttackReturning("miss")
    /\ \E i \in BeeIds : 0 < bees[i].HP /\ bees[i].HP < BeeStatsTable[bees[i].Type].HP

\* C28: the monitor reads turn number and health of the game as they are when
\* it holds the read lock, after it has taken the event from the queue; the
\* health it has read for an event is never above the health the player had
\* right after the damage that produced the event, and neither is the
\* player's current health for any event still waiting.
C28_FreshSnapshot ==
    /\ Len(eventHP) = Len(damageEvent)
    /\ \A k \in 1..Len(eventHP) : Player.HP <= eventHP[k]
    /\ cpc = "rlocked" => cPlayerHP = Player.HP /\ cTurns = Turns
    /\ cpc \in {"rlocked", "get", "locked"} => cPlayerHP <= cEventHP

\* The monitor is about to report a health strictly below the one the player
\* had after the damage of the event: another BeeTurn has stung since.
C28_Witness ==
    /\ cpc = "locked" /\ cPlayerHP < cEventHP /\ cDamage > 0

\* The monitor is about to report exactly the health the event left.
C28_SameHealth ==
    /\ cpc = "locked" /\ cPlayerHP = cEventHP /\ cDamage > 0

\* C29: when the monitor has the three values it reports for an event, the
\* game has been, at some moment of the run, in a state with that turn
\* number, that player health and that number of bees alive.
C29_OneSnapshot ==
    cpc = "locked" => <<cTurns, cPlayerHP, Len(cAliveBees)>> \in seen

\* C30: a decision is a hit exactly when its draw is at least BeesMissChance.
\* With BeesMissChance = 1.0 no decision is a hit and the player keeps the
\* health the game started with; with BeesMissChance = 0.0 no decision is a
\* miss, and a BeeTurn called with a bee alive on a living player returns
\* with the player's health lower than at the call.
C30_HitIffDrawAtLeastChance ==
    /\ \A i \in BeeIds : \A r \in Float64Values :
          /\ makeBeeDecision(i, r).Bee = i
          /\ makeBeeDecision(i, r).WillHit <=> (r >= Config.BeesMissChance)
    /\ \A k \in 1..Len(hits) : hits[k].WillHit
    /\ \A k \in 1..Len(misses) : ~misses[k].WillHit
    /\ Config.BeesMissChance = AlwaysMiss =>
          /\ \A k \in 1..Len(Records) : ~Records[k].WillHit
          /\ \A i \in DOMAIN wk : wk[i] # "hit"
          /\ Player.HP = Config.PlayerHP
          /\ damageEvent = <<>>
    /\ Config.BeesMissChance = NeverMiss =>
          /\ \A k \in 1..Len(Records) : Records[k].WillHit
          /\ \A i \in DOMAIN wk : wk[i] # "miss"
          /\ (/\ Returning("BeeTurn")
              /\ pre.HP > 0
              /\ \E i \in DOMAIN pre.bees : pre.bees[i].HP > 0)
                => Player.HP < pre.HP

\* With BeesMissChance = 0.0 a BeeTurn has returned after stinging the player.
C30_Witness ==
    /\ Config.BeesMissChance = NeverMiss
    /\ Returning("BeeTurn") /\ Len(hits) >= 1 /\ Player.HP < pre.HP

\* With BeesMissChance = 1.0 a BeeTurn of two bees has returned with two
\* misses and the player untouched.
C30_AllMiss ==
    /\ Config.BeesMissChance = AlwaysMiss
    /\ Returning("BeeTurn") /\ Len(misses) = 2 /\ Player.HP = pre.HP

\* With the default chance one BeeTurn holds a hit and a miss.
C30_Mixed ==
    /\ Config.BeesMissChance = DefaultBeesMissChance
    /\ Returning("BeeTurn") /\ Len(hits) = 1 /\ Len(misses) = 1

(***************************************************************************)
(* C31..C38                                                                *)
(***************************************************************************)
\* PlayGame has left its loop: it is in EndGame or has returned.
LoopLeft == pg \in {"end", "done"}
\* The healths and the turn counter.
Combat == <<Player, bees, Turns>>
\* PlayGame is about to read a line and will find "quit" or the end of input.
AboutToStop ==
    /\ pg = "body" /\ pc = "idle" /\ ~AutoMode
    /\ stdin = <<>> \/ TrimLower(Head(stdin)) = "quit"

\* C31: the step of PlayGame that reads "quit" or finds the end of input
\* leaves the loop and changes no health and not Turns; once the loop is
\* left it stays left, no PlayerTurn, PlayerAttack or BeeTurn is in progress
\* and no step changes a health or Turns.
C31_QuitStopsTheLoop ==
    /\ [][AboutToStop => (Combat' = Combat /\ (pg' = pg \/ LoopLeft'))]_vars
    /\ [][LoopLeft => (LoopLeft' /\ Combat' = Combat)]_vars
    /\ [](LoopLeft => op \in {"none", "EndGame"})
    /\ [](pg = "done" /\ input = "quit" => verdict = "none")

\* PlayGame has returned on "quit" after one turn, with the player and a bee
\* alive and the turn counter where the turn left it.
C31_Witness ==
    /\ pg = "done" /\ input = "quit" /\ Len(inputLog) = 2 /\ Turns = 1
    /\ Player.HP > 0 /\ \E i \in BeeIds : bees[i].HP > 0

\* PlayGame has returned at the end of input after one turn, through EndGame,
\* with the player and a bee alive.
C31_EndOfInput ==
    /\ pg = "done" /\ input = "hit" /\ stdin = <<>> /\ ~AutoMode /\ Turns = 1
    /\ verdict # "none"
    /\ Player.HP > 0 /\ \E i \in BeeIds : bees[i].HP > 0

\* IsGameOver would return true: the player is at 0 or no bee is alive.
GameIsOver == Player.HP = 0 \/ AllBeesDead

\* C32: with the game over at the top of its loop PlayGame only goes on to
\* EndGame: no step there changes a health, Turns or the input, none reads a
\* line, and only IsGameOver is called; EndGame changes none of them either,
\* and PlayGame returns.  So a game that is over with no turn played and no
\* line read is at the loop test, in EndGame or returned.
C32_OverAtStart ==
    /\ [][(pg = "top" /\ GameIsOver) =>
            /\ pg' \in {"top", "end"}
            /\ Combat' = Combat
            /\ stdin' = stdin /\ inputLog' = inputLog]_vars
    /\ [][LoopLeft => (Combat' = Combat /\ stdin' = stdin /\ inputLog' = inputLog)]_vars
    /\ []((pg = "top" /\ GameIsOver) => op \in {"none", "IsGameOver"})
    /\ []((GameIsOver /\ Turns = 0 /\ inputLog = <<>>) =>
            /\ pg \in {"top", "end", "done"}
            /\ op \in {"none", "IsGameOver", "EndGame"})
    /\ ((pg = "top" /\ GameIsOver) ~> (pg = "done" /\ verdict # "none"))

\* PlayGame has returned through EndGame on a game whose bees KillAllBees had
\* killed before: a line is still waiting on standard input and no turn was
\* played.
C32_Witness ==
    /\ pg = "done" /\ verdict = "won"
    /\ BeeIds # {} /\ AllBeesDead /\ Player.HP = Config.PlayerHP
    /\ Turns = 0 /\ inputLog = <<>> /\ stdin # <<>>

\* The same with a player at 0 and every bee alive.
C32_PlayerDead ==
    /\ pg = "done" /\ verdict = "lost"
    /\ Player.HP = 0 /\ \A i \in BeeIds : bees[i].HP > 0
    /\ Turns = 0 /\ inputLog = <<>> /\ stdin # <<>>

\* The same with a hive that was configured empty.
C32_NoBees ==
    /\ pg = "done" /\ BeeIds = {} /\ Turns = 0 /\ inputLog = <<>> /\ stdin # <<>>

\* C33: when KillAllBees has been called by a second goroutine during an
\* automatic PlayGame, PlayGame returns, and once it has returned every bee
\* is at 0.
C33_KillDuringAutoPlay ==
    /\ (AutoMode ~> (pg = "done"))
    /\ []((pg = "done" /\ kpc = "done") => AllBeesDead)

\* The part of C33 about returning: an automatic PlayGame returns whatever
\* the second goroutine does, and it leaves the lock free of its own hold.
C33_Returns ==
    /\ (AutoMode ~> (pg = "done"))
    /\ [](pg = "done" => ~Holds("main"))

\* KillAllBees was called between the read and the write of TakeDamage.
C33_LostKill ==
    /\ pc = "pa_store" /\ kpc # "idle" /\ hpRead > 0 /\ bees[targetBee].HP = 0

\* C34: in every state the cached list holds every bee with health above 0,
\* so what getAliveBeesUnsafe computes from the cache is exactly the bees of
\* the hive with health above 0, each once, and their number is the sum of
\* the lengths GetBeesByType returns for the three categories.
C34_CacheKeepsTheLiving ==
    /\ AliveIds \subseteq SeqRange(AliveBees)
    /\ Len(AliveBees) = Cardinality(SeqRange(AliveBees))
    /\ SeqRange(getAliveBeesUnsafe) = AliveIds
    /\ Len(getAliveBeesUnsafe) = Cardinality(AliveIds)
    /\ Len(getAliveBeesUnsafe) =
          Len(GetBeesByType(Queen)) + Len(GetBeesByType(Worker))
            + Len(GetBeesByType(Drone))
    /\ AliveIds = UNION {SeqRange(GetBeesByType(t)) : t \in BeeTypes}

\* The cache still lists a bee that has died, with another bee alive: the
\* next GetAliveBees has something to filter out and something to keep.
C34_Witness ==
    /\ pc = "idle"
    /\ \E i \in SeqRange(AliveBees) : bees[i].HP = 0
    /\ AliveIds # {}

\* KillAllBees has emptied the cache of a hive whose bees were alive.
C34_AfterKillAllBees ==
    /\ Returning("KillAllBees") /\ AliveBees = <<>> /\ AliveIds = {}
    /\ \E i \in DOMAIN pre.bees : pre.bees[i].HP > 0

\* C35: no step raises the player's health or a bee's health, so a game that
\* is over stays over; IsGameOver returns true exactly when the game is over,
\* hence true at every call after one that returned true.
C35_HealthNeverRises ==
    /\ [][/\ Player'.HP <= Player.HP
          /\ DOMAIN bees' = DOMAIN bees
          /\ \A i \in BeeIds : bees'[i].HP <= bees[i].HP]_vars
    /\ [][GameIsOver => GameIsOver']_vars
    /\ [](Returning("IsGameOver") => (over <=> GameIsOver))
    /\ [](Player.HP >= 0 /\ \A i \in BeeIds : bees[i].HP >= 0)

\* IsGameOver returns true after a BeeTurn was called on a player already
\* at 0, a bee still alive.
C35_Witness ==
    /\ Returning("IsGameOver") /\ over
    /\ Player.HP = 0 /\ ~AllBeesDead /\ deadBeeTurns >= 1

\* C36: in a run of PlayGame the player is never at 0 with every bee of a
\* hive at 0; a step that changes a bee's health is taken with the player
\* alive, and a step that changes the player's health with a bee alive.
C36_EndsExclude ==
    /\ [](~(Player.HP = 0 /\ BeeIds # {} /\ AllBeesDead))
    /\ [][bees' # bees => Player.HP > 0]_vars
    /\ [][Player' # Player => AliveIds # {}]_vars
    /\ [](verdict = "lost" => AliveIds # {})
    /\ [](verdict = "won" => Player.HP > 0)

\* PlayGame has ended in defeat with a bee that had been hit still alive.
C36_Witness ==
    /\ pg = "done" /\ verdict = "lost" /\ Player.HP = 0
    /\ \E i \in AliveIds : bees[i].HP < BeeStatsTable[bees[i].Type].HP

\* PlayGame has ended in victory over a hive, the player having been stung.
C36_Victory ==
    /\ pg = "done" /\ verdict = "won" /\ BeeIds # {} /\ AllBeesDead
    /\ 0 < Player.HP /\ Player.HP < Config.PlayerHP

\* C37: in PlayGame a PlayerTurn is called with "hit" on a living player and a
\* hive with a bee alive; the alive list PlayerAttack gets is never empty,
\* so it never reports an empty hive; and Turns is the number of attacks
\* made on a non-empty hive, plus one while a PlayerTurn has counted its
\* turn and not yet rolled.
C37_TurnsCountAttempts ==
    /\ op = "PlayerTurn" =>
          /\ command = "hit"
          /\ pre.HP > 0
          /\ \E i \in DOMAIN pre.bees : pre.bees[i].HP > 0
    /\ pc = "pa_got" => Len(aliveBees) > 0
    /\ report # "nobees"
    /\ Turns = attempts
                + (IF pc \in {"pt_locked", "pa_call", "pa_got"} THEN 1 ELSE 0)

\* PlayGame has returned after two turns, each an attack on a living hive.
C37_Witness ==
    /\ pg = "done" /\ Turns = 2 /\ attempts = 2

\* a can be got from b by leaving elements out.
RECURSIVE IsSubseq(_, _)
IsSubseq(a, b) ==
    IF a = <<>> THEN TRUE
    ELSE IF b = <<>> THEN FALSE
    ELSE IF Head(a) = Head(b) THEN IsSubseq(Tail(a), Tail(b))
    ELSE IsSubseq(a, Tail(b))

\* C38: what the monitor has received so far, followed by what waits in the
\* queue, is the sequence of damages of the attacks that landed with some of
\* them left out: the order is kept, no event is received twice and every
\* value received is the damage of an attack that had landed.  The value the
\* monitor handles is the last one it received, and it has received no more
\* events than attacks have landed.
C38_QueueIsFaithful ==
    /\ IsSubseq(consumedLog \o damageEvent, landedLog)
    /\ Len(consumedLog) + Len(damageEvent) <= Len(landedLog)
    /\ cpc # "wait" => cDamage = consumedLog[Len(consumedLog)]
    /\ \A k \in 1..Len(consumedLog) :
          \E i \in BeeIds : consumedLog[k] = bees[i].Damage

\* The monitor has received two events of different damage, in the order in
\* which the attacks landed, and a third one waits.
C38_Witness ==
    /\ Len(consumedLog) = 2 /\ consumedLog[1] # consumedLog[2]
    /\ damageEvent # <<>>
    /\ landedLog = consumedLog \o damageEvent

====
